---- MODULE Spec2Model ----
(***************************************************************************)
(* A model of the xarray dataset accessor of postprocess/wrfpp.py: the     *)
(* unit bookkeeping (units, units_nice, check_units), the derived          *)
(* variables, the reconstruction of the projection (crs_pyproj and its two *)
(* helpers) and the geographic operations built on it (crs, ll2xy, xy2ll,  *)
(* interp_h).                                                              *)
(*                                                                         *)
(* The dataset is state: the accessor only reads it.  Every accessor call  *)
(* is one action that records what the call did (the steps it took, in     *)
(* order) and how it ended (a value, or the exception that left it).       *)
(***************************************************************************)
EXTENDS Integers, Sequences, FiniteSets, TLC

VARIABLES
    attrs,      \* per-variable attribute maps of the dataset: attrs[v].units, attrs[v].unit
    gattrs,     \* dataset-level attributes (POLE_LON, MAP_PROJ, ...)
    coords,     \* what the stored longitude/latitude arrays look like
    ures,       \* outcome of the last call of units / units_nice / check_units
    dres,       \* outcome of the last evaluation of a derived variable
    gres,       \* outcome of the last geographic call (crs, ll2xy, xy2ll, interp_h)
    nrecon,     \* how many times crs_pyproj has run on the dataset so far
    kept,       \* the derived arrays that the caller still holds, oldest first
    job,        \* a run of compile_WPS.py: its options, position and effects
    drv         \* a run of test-case-multi-wrf.py: its position and submissions

vars == <<attrs, gattrs, coords, ures, dres, gres, nrecon, kept, job, drv>>

(***************************************************************************)
(* Values shared by the whole model.                                       *)
(***************************************************************************)

\* A key that the attribute map does not hold.
Absent == "<absent>"

\* Python's None.
None == "<None>"

\* No exception left the call.
NoExc == [kind |-> "none", msg |-> <<>>]

Raised(kind, msg) == [kind |-> kind, msg |-> msg]

\* "%s" % x, for a unit string or None.
Fmt(x) == IF x = None THEN "None" ELSE x

(***************************************************************************)
(* The variables of the dataset that the derived variables read, the unit  *)
(* each is checked against, and one more variable (the one the plotting    *)
(* scripts show by default) that no derived variable reads.                *)
(***************************************************************************)

RawVars == {"T", "P", "PB", "QVAPOR", "QCLOUD", "RAINNC", "RAINC",
            "PH", "PHB", "HGT", "MAPFAC_M"}

PlotVar == "T2"

Vars == RawVars \cup {PlotVar}

\* The units WRF records for each variable.
RecordedUnits(v) ==
    CASE v = "T" -> "K"
      [] v \in {"P", "PB"} -> "Pa"
      [] v \in {"QVAPOR", "QCLOUD"} -> "kg kg-1"
      [] v \in {"RAINNC", "RAINC"} -> "mm"
      [] v \in {"PH", "PHB"} -> "m2 s-2"
      [] v = "HGT" -> "m"
      [] v = "MAPFAC_M" -> ""
      [] v = PlotVar -> "K"

\* Unit strings that occur in attribute maps.
UnitStrings ==
    {"K", "Pa", "hPa", "kg kg-1", "g kg-1", "mm", "m", "km", "",
     "-", "1", "m2 s-2", "m2/s2", "kg m-2", "kg/m2", "kg m-2 s-1",
     "kg/(s*m2)", "kg/(m2*s)", "kg/m2/s", "W m-2", "W m{-2}", "W/m2",
     "degC"}

AttrValues == UnitStrings \cup {Absent}

(***************************************************************************)
(* GenericDatasetAccessor.units                                            *)
(***************************************************************************)

\* attrs["units"], and attrs["unit"] when that raises KeyError; the KeyError
\* of the second lookup leaves the call.
units_mut_fallback_first(varname) ==
    LET a == attrs[varname] IN
    IF a.unit # Absent THEN [exc |-> NoExc, val |-> a.unit]
    ELSE IF a.units # Absent THEN [exc |-> NoExc, val |-> a.units]
    ELSE [exc |-> Raised("KeyError", <<"unit">>), val |-> None]

units(varname) ==
    LET a == attrs[varname] IN
    IF a.units # Absent THEN [exc |-> NoExc, val |-> a.units]
    ELSE IF a.unit # Absent THEN [exc |-> NoExc, val |-> a.unit]
    ELSE [exc |-> Raised("KeyError", <<"unit">>), val |-> None]

(***************************************************************************)
(* GenericDatasetAccessor.units_nice                                       *)
(***************************************************************************)

\* The keys of the replacements dictionary.
ReplacementKeys ==
    {"-", "1", "m2/s2", "kg/m2", "kg/(s*m2)", "kg/(m2*s)", "kg/m2/s", "W m{-2}"}

replacements_mut_order(u) ==
    CASE u = "-" -> None
      [] u = "1" -> None
      [] u = "m2/s2" -> "m2 s-2"
      [] u = "kg/m2" -> "kg m-2"
      [] u = "kg/(s*m2)" -> "kg s-1 m-2"
      [] u = "kg/(m2*s)" -> "kg m-2 s-1"
      [] u = "kg/m2/s" -> "kg m-2 s-1"
      [] u = "W m{-2}" -> "W m-2"

replacements(u) ==
    CASE u = "-" -> None
      [] u = "1" -> None
      [] u = "m2/s2" -> "m2 s-2"
      [] u = "kg/m2" -> "kg m-2"
      [] u = "kg/(s*m2)" -> "kg m-2 s-1"
      [] u = "kg/(m2*s)" -> "kg m-2 s-1"
      [] u = "kg/m2/s" -> "kg m-2 s-1"
      [] u = "W m{-2}" -> "W m-2"

units_nice(varname) ==
    LET r == units(varname) IN
    IF r.exc.kind # "none" THEN r
    ELSE IF r.val \in ReplacementKeys
         THEN [exc |-> NoExc, val |-> replacements(r.val)]
         ELSE r

(***************************************************************************)
(* GenericDatasetAccessor.check_units                                      *)
(***************************************************************************)

BadUnitsMsg(expected, actual) ==
    <<"Bad units: expected ", Fmt(expected), ", got ", Fmt(actual)>>

check_units_mut_raw(varname, expected, nice) ==
    LET r == IF attrs[varname].units # Absent
             THEN [exc |-> NoExc, val |-> attrs[varname].units]
             ELSE [exc |-> Raised("KeyError", <<"units">>), val |-> None]
    IN  IF r.exc.kind # "none" THEN r
        ELSE IF r.val # expected
             THEN [exc |-> Raised("ValueError", BadUnitsMsg(expected, r.val)),
                   val |-> None]
             ELSE [exc |-> NoExc, val |-> None]

check_units(varname, expected, nice) ==
    LET r == IF nice
             THEN units_nice(varname)
             ELSE IF attrs[varname].units # Absent
                  THEN [exc |-> NoExc, val |-> attrs[varname].units]
                  ELSE [exc |-> Raised("KeyError", <<"units">>), val |-> None]
    IN  IF r.exc.kind # "none" THEN r
        ELSE IF r.val # expected
             THEN [exc |-> Raised("ValueError", BadUnitsMsg(expected, r.val)),
                   val |-> None]
             ELSE [exc |-> NoExc, val |-> None]

(***************************************************************************)
(* Derived variables.                                                      *)
(*                                                                         *)
(* An evaluation is a run: the steps taken so far, in order, and the       *)
(* exception that ended it (NoExc while it is still going).  A step is     *)
(*   <<"check", v, q>>   q called check_units on raw variable v            *)
(*   <<"read",  v, q>>   q indexed raw variable v with the subscript       *)
(*   <<"attr",  a, q>>   q read dataset attribute a                        *)
(*   <<"arith", q>>      q computed on data arrays                         *)
(* A step of a run that has already raised does nothing.                   *)
(*                                                                         *)
(* The run also carries the arrays computed so far, as a stack of values.  *)
(***************************************************************************)

\* The dimensions of each raw variable in a WRF output file.
Dims(v) ==
    CASE v \in {"RAINNC", "RAINC", "HGT", "MAPFAC_M", PlotVar} ->
             <<"Time", "south_north", "west_east">>
      [] v \in {"PH", "PHB"} ->
             <<"Time", "bottom_top_stag", "south_north", "west_east">>
      [] OTHER -> <<"Time", "bottom_top", "south_north", "west_east">>

\* The number of dimensions of each raw variable in a WRF output file.
NDim(v) == Len(Dims(v))

\* A subscript is a tuple with, per position, the full slice ":" or the
\* integer index "0": [:], [0], [:, 0], [:, :, :, :] and [:, 0, :, :].
Subscripts ==
    {<<":">>, <<"0">>, <<":", "0">>,
     <<":", ":", ":", ":">>, <<":", "0", ":", ":">>}

\* The dimensions at the positions that subscript s slices (sliced = TRUE)
\* or indexes with an integer (sliced = FALSE); positions that s does not
\* reach are sliced in full.
RECURSIVE AxesWhere(_, _, _, _)
AxesWhere(dims, s, i, sliced) ==
    IF i > Len(dims) THEN <<>>
    ELSE (IF ((i > Len(s) \/ s[i] = ":") = sliced) THEN <<dims[i]>> ELSE <<>>)
         \o AxesWhere(dims, s, i + 1, sliced)

\* A data array: its dimensions and the expression that gives its values.
\* <<"var", v, picked>> is raw variable v taken at index 0 along the
\* dimensions in picked and in full along its other dimensions.
Value(dims, expr) == [dims |-> dims, expr |-> expr]

NewRun == [log |-> <<>>, exc |-> NoExc, stack |-> <<>>]

Going(r) == r.exc.kind = "none"

\* self._dataset.wrf.check_units(v, expected), called by q
Check(r, v, expected, q) ==
    IF ~Going(r) THEN r
    ELSE [r EXCEPT !.log = Append(@, <<"check", v, q>>),
                   !.exc = check_units(v, expected, TRUE).exc]

\* self._dataset[v].__getitem__(*args), called by q: position i of the
\* subscript applies to dimension i of v, and xarray raises IndexError when
\* the subscript has more entries than the variable has dimensions.
Read(r, v, s, q) ==
    IF ~Going(r) THEN r
    ELSE IF Len(s) > NDim(v)
    THEN [r EXCEPT !.log = Append(@, <<"read", v, q>>),
                   !.exc = Raised("IndexError", <<"too many indices">>)]
    ELSE [r EXCEPT !.log = Append(@, <<"read", v, q>>),
                   !.stack = Append(@, Value(AxesWhere(Dims(v), s, 1, TRUE),
                                 <<"var", v, AxesWhere(Dims(v), s, 1, FALSE)>>))]

\* wrf.attrs[a], read by q
Attr(r, a, q) ==
    IF ~Going(r) THEN r
    ELSE [r EXCEPT !.log = Append(@, <<"attr", a, q>>),
                   !.stack = Append(@, Value(<<>>, <<"attr", a>>))]

\* constants[name], or a literal
Const(r, name) ==
    IF ~Going(r) THEN r
    ELSE [r EXCEPT !.stack = Append(@, Value(<<>>, <<"const", name>>))]

\* The dimensions of a op b: those of a, then those only b has.
Broadcast(a, b) ==
    a \o SelectSeq(b, LAMBDA d : \A i \in 1..Len(a) : a[i] # d)

\* The two arrays on top of the stack are replaced by (a op b).
Binary(r, op) ==
    IF ~Going(r) THEN r
    ELSE LET n == Len(r.stack)
             a == r.stack[n - 1]
             b == r.stack[n]
         IN  [r EXCEPT !.stack = Append(SubSeq(@, 1, n - 2),
                           Value(Broadcast(a.dims, b.dims),
                                 <<op, a.expr, b.expr>>))]

\* The two arrays on top of the stack change places.
Swap(r) ==
    IF ~Going(r) THEN r
    ELSE LET n == Len(r.stack)
         IN  [r EXCEPT !.stack = SubSeq(@, 1, n - 2) \o <<@[n], @[n - 1]>>]

\* wrf.<derived>.__getitem__(*args), called within another evaluation:
\* sub is the run of the callee.
Call(r, sub) ==
    IF ~Going(r) THEN r
    ELSE [log |-> r.log \o sub.log, exc |-> sub.exc,
          stack |-> r.stack \o sub.stack]

\* The array on top of the stack is replaced by fn of it.
Unary(r, fn) ==
    IF ~Going(r) THEN r
    ELSE LET n == Len(r.stack)
         IN  [r EXCEPT !.stack[n] = Value(@.dims, <<fn, @.expr>>)]

\* An operation along dimension dim of the array on top of the stack
\* (isel, diff, sum): ValueError when the array has no such dimension.
\* The dimension is renamed to (to), or dropped when (to) is "".
Along(r, fn, dim, to) ==
    IF ~Going(r) THEN r
    ELSE LET n == Len(r.stack)
             a == r.stack[n]
         IN  IF \A i \in 1..Len(a.dims) : a.dims[i] # dim
             THEN [r EXCEPT !.exc = Raised("ValueError",
                                        <<"Dimension does not exist: ", dim>>)]
             ELSE [r EXCEPT !.stack[n] =
                      Value(IF to = ""
                            THEN SelectSeq(a.dims, LAMBDA d : d # dim)
                            ELSE [i \in 1..Len(a.dims) |->
                                     IF a.dims[i] = dim THEN to ELSE a.dims[i]],
                            <<fn, a.expr>>)]

\* an expression on data arrays, computed by q
Arith(r, q) ==
    IF ~Going(r) THEN r ELSE [r EXCEPT !.log = Append(@, <<"arith", q>>)]

\* pot_temp_t0 + T[args]
WRFPotentialTemperature(r, s) ==
    LET q == "potential_temperature" IN
    Arith(Binary(Read(Const(Check(r, "T", "K", q), "pot_temp_t0"),
                      "T", s, q), "+"), q)

\* A faulty variant: the second check comes after the sum has been formed.
WRFAtmPressure_late_check(r, s) ==
    LET q == "atm_pressure" IN
    Check(Arith(Binary(Read(Read(Check(r, "P", "Pa", q), "P", s, q),
                            "PB", s, q), "+"), q),
          "PB", "Pa", q)

\* A faulty variant: the base-state pressure is taken in full.
WRFAtmPressure_full_base(r, s) ==
    LET q == "atm_pressure" IN
    Arith(Binary(Read(Read(Check(Check(r, "P", "Pa", q), "PB", "Pa", q),
                           "P", s, q), "PB", <<":">>, q), "+"), q)

\* P[args] + PB[args]
WRFAtmPressure(r, s) ==
    LET q == "atm_pressure" IN
    Arith(Binary(Read(Read(Check(Check(r, "P", "Pa", q), "PB", "Pa", q),
                           "P", s, q), "PB", s, q), "+"), q)

\* pot_temp * (pressure / pot_temp_p0) ** (r_air / cp_air)
WRFAirTemperature(r, s) ==
    LET r1 == Call(Call(r, WRFPotentialTemperature(NewRun, s)),
                   WRFAtmPressure(NewRun, s))
        r2 == Binary(Const(r1, "pot_temp_p0"), "/")
        r3 == Binary(Binary(Const(Const(r2, "r_air"), "cp_air"), "/"), "**")
    IN  Arith(Binary(r3, "*"), "air_temperature")

\* pressure / (r_air * air_temp)
WRFDensityOfDryAir(r, s) ==
    LET r1 == Const(Call(r, WRFAtmPressure(NewRun, s)), "r_air")
        r2 == Binary(Call(r1, WRFAirTemperature(NewRun, s)), "*")
    IN  Arith(Binary(r2, "/"), "density_of_dry_air")

\* 100 * q / qsat, qsat = r * psat / (pressure - psat),
\* psat = 611.2 * exp(17.67 * temperature / (temperature + 243.5))
WRFRelativeHumidity(r, s) ==
    LET q  == "relative_humidity"
        r1 == Read(Check(r, "QVAPOR", "kg kg-1", q), "QVAPOR", s, q)
        \* temperature, psat
        r2 == Arith(Arith(Unary(Binary(Const(
                  Call(r1, WRFAirTemperature(NewRun, s)),
                  "273.15"), "-"), "psat"), q), q)
        \* pressure, qsat, 100 * q / qsat
        r3 == Arith(Arith(Binary(Binary(
                  Call(r2, WRFAtmPressure(NewRun, s)), "qsat"), "100*/"), q), q)
    IN  r3

\* RAINNC[args] + RAINC[args]
WRFAccumulatedPrecipitation(r, s) ==
    LET q == "accumulated_precipitation" IN
    Arith(Binary(Read(Read(Check(Check(r, "RAINNC", "mm", q), "RAINC", "mm", q),
                           "RAINNC", s, q), "RAINC", s, q), "+"), q)

\* dx * dy / (mapfrac_m * mapfrac_m)
WRFGridCellArea(r, s) ==
    LET q  == "grid_cell_area"
        r1 == Binary(Attr(Attr(r, "DX", q), "DY", q), "*")
    IN  Arith(Binary(Unary(Read(r1, "MAPFAC_M", s, q), "square"), "/"), q)

\* (PH[args] + PHB[args]) / grav_accel
WRFAltitudeASL(r, s) ==
    LET q == "altitude_asl" IN
    Arith(Binary(Const(Binary(Read(Read(Check(Check(r, "PH", "m2 s-2", q),
                                              "PHB", "m2 s-2", q),
                                        "PH", s, q), "PHB", s, q), "+"),
                       "grav_accel"), "/"), q)

\* altitude_asl[args] - hgt, with hgt = HGT[args] read first
WRFAltitudeAGL(r, s) ==
    LET q  == "altitude_agl"
        r1 == Read(Check(r, "HGT", "m", q), "HGT", s, q)
    IN  Arith(Binary(Swap(Call(r1, WRFAltitudeASL(NewRun, s))), "-"), q)

\* A faulty variant: the mixing ratio is read without its unit check.
WRFCloudLiquidWaterPath_unchecked(r, s) ==
    LET q  == "cloud_liquid_water_path"
        r1 == Read(r, "QCLOUD", s, q)
        r2 == Arith(Binary(Swap(Call(r1, WRFDensityOfDryAir(NewRun, s))), "*"), q)
        r3 == Arith(Along(Call(r2, WRFAltitudeASL(NewRun, s)), "diff",
                          "bottom_top_stag", "bottom_top"), q)
        r4 == Arith(Binary(r3, "*"), q)
    IN  Arith(Along(r4, "sum", "bottom_top", ""), q)

\* sum over bottom_top of (air_den * qc) * box_height, with
\* qc = QCLOUD[args], air_den = density_of_dry_air[args] and
\* box_height = altitude_asl[args].diff("bottom_top_stag")
WRFCloudLiquidWaterPath(r, s) ==
    LET q  == "cloud_liquid_water_path"
        r1 == Read(Check(r, "QCLOUD", "kg kg-1", q), "QCLOUD", s, q)
        \* cloud_water_content
        r2 == Arith(Binary(Swap(Call(r1, WRFDensityOfDryAir(NewRun, s))), "*"), q)
        \* box_height, liquid_water_path, its sum
        r3 == Arith(Along(Call(r2, WRFAltitudeASL(NewRun, s)), "diff",
                          "bottom_top_stag", "bottom_top"), q)
        r4 == Arith(Binary(r3, "*"), q)
    IN  Arith(Along(r4, "sum", "bottom_top", ""), q)

\* (alt.isel(bottom_top_stag=slice(None, -1))
\*  + alt.isel(bottom_top_stag=slice(1, None))) / 2.0
WRFAltitudeASL_C(r, s) ==
    Arith(Along(Call(r, WRFAltitudeASL(NewRun, s)),
                "center", "bottom_top_stag", "bottom_top"), "altitude_asl_c")

WRFAltitudeAGL_C(r, s) ==
    Arith(Along(Call(r, WRFAltitudeAGL(NewRun, s)),
                "center", "bottom_top_stag", "bottom_top"), "altitude_agl_c")

\* alt.isel(bottom_top_stag=slice(1, None))
\*  - alt.isel(bottom_top_stag=slice(None, -1))
WRFBoxDz(r, s) ==
    Arith(Along(Call(r, WRFAltitudeAGL(NewRun, s)),
                "dz", "bottom_top_stag", "bottom_top"), "box_dz")

\* The derived-variable properties of WRFDatasetAccessor.
DerivedNames ==
    {"potential_temperature", "atm_pressure", "air_temperature",
     "density_of_dry_air", "relative_humidity", "accumulated_precipitation",
     "grid_cell_area", "altitude_asl", "altitude_agl",
     "cloud_liquid_water_path", "altitude_asl_c", "altitude_agl_c", "box_dz"}

\* ds.wrf.<q>[subscript]
Evaluate(q, s) ==
    CASE q = "potential_temperature" -> WRFPotentialTemperature(NewRun, s)
      [] q = "atm_pressure" -> WRFAtmPressure(NewRun, s)
      [] q = "air_temperature" -> WRFAirTemperature(NewRun, s)
      [] q = "density_of_dry_air" -> WRFDensityOfDryAir(NewRun, s)
      [] q = "relative_humidity" -> WRFRelativeHumidity(NewRun, s)
      [] q = "accumulated_precipitation" -> WRFAccumulatedPrecipitation(NewRun, s)
      [] q = "grid_cell_area" -> WRFGridCellArea(NewRun, s)
      [] q = "altitude_asl" -> WRFAltitudeASL(NewRun, s)
      [] q = "altitude_agl" -> WRFAltitudeAGL(NewRun, s)
      [] q = "cloud_liquid_water_path" -> WRFCloudLiquidWaterPath(NewRun, s)
      [] q = "altitude_asl_c" -> WRFAltitudeASL_C(NewRun, s)
      [] q = "altitude_agl_c" -> WRFAltitudeAGL_C(NewRun, s)
      [] q = "box_dz" -> WRFBoxDz(NewRun, s)

(***************************************************************************)
(* Datasets.                                                               *)
(***************************************************************************)

\* The attribute map WRF writes for variable v.
DefaultAttrs == [v \in Vars |-> [units |-> RecordedUnits(v), unit |-> Absent]]

\* A unit that variable v may carry in a file that was not written by WRF
\* as is (converted, or post-processed).
OtherUnits(v) ==
    CASE v = "T" -> "degC"
      [] v \in {"P", "PB"} -> "hPa"
      [] v \in {"QVAPOR", "QCLOUD"} -> "g kg-1"
      [] v \in {"RAINNC", "RAINC"} -> "kg m-2"
      [] v \in {"PH", "PHB"} -> "m"
      [] v = "HGT" -> "km"
      [] v = "MAPFAC_M" -> "m"
      [] v = PlotVar -> "degC"

\* The attribute maps of raw variable v other than the one WRF writes:
\* another unit, the unit under the fallback key only, neither key, and
\* (for the geopotentials) another spelling of the same unit.
NumOtherAttrs(v) == IF v \in {"PH", "PHB"} THEN 4 ELSE 3

OtherAttrs(v, i) ==
    CASE i = 1 -> [units |-> OtherUnits(v), unit |-> Absent]
      [] i = 2 -> [units |-> Absent, unit |-> RecordedUnits(v)]
      [] i = 3 -> [units |-> Absent, unit |-> Absent]
      [] i = 4 -> [units |-> "m2/s2", unit |-> Absent]

\* Every attribute map over the unit strings.
AllAttrs == [units : AttrValues, unit : AttrValues]

\* At most this many raw variables carry attributes other than WRF's.
MaxBadUnits == 2

\* The variables whose attributes range over AllAttrs when the unit
\* functions are called on their own.
ProbeVars == {PlotVar, "PH"}

NoUnitsCall == [op |-> "none", varname |-> "", expected |-> None, nice |-> TRUE,
                exc |-> NoExc, val |-> None]

NoEvaluation == [q |-> "none", s |-> <<>>, log |-> <<>>, exc |-> NoExc,
                 val |-> Value(<<>>, <<>>)]

NoGeoCall == [op |-> "none", args |-> <<>>, log |-> <<>>, exc |-> NoExc,
              val |-> None]

(***************************************************************************)
(* The caller makes one call at a time: a call starts when the result of   *)
(* the one before has been taken.                                          *)
(***************************************************************************)

Ready ==
    /\ ures.op = "none"
    /\ dres.q = "none"
    /\ gres.op = "none"

\* The caller takes the result (or catches the exception) and goes on.
Return ==
    /\ ~Ready
    /\ ures' = NoUnitsCall
    /\ dres' = NoEvaluation
    /\ gres' = NoGeoCall
    /\ UNCHANGED <<attrs, gattrs, coords, nrecon, kept, job, drv>>

(***************************************************************************)
(* Calls of the unit functions.                                            *)
(***************************************************************************)

\* The units that callers expect.
ExpectedUnits == {"K", "Pa", "kg kg-1", "mm", "m2 s-2", "m", "kg m-2 s-1", "W m-2"}

CallUnits(varname) ==
    /\ Ready
    /\ ures' = [op |-> "units", varname |-> varname, expected |-> None,
                nice |-> TRUE, exc |-> units(varname).exc,
                val |-> units(varname).val]
    /\ UNCHANGED <<attrs, gattrs, coords, dres, gres, nrecon, kept, job, drv>>

\* A faulty variant: the normalized unit is written back to the dataset.
CallUnitsNice_writes_back(varname) ==
    /\ Ready
    /\ ures' = [op |-> "units_nice", varname |-> varname, expected |-> None,
                nice |-> TRUE, exc |-> units_nice(varname).exc,
                val |-> units_nice(varname).val]
    /\ attrs' = IF units_nice(varname).exc.kind = "none"
                THEN [attrs EXCEPT ![varname].units = units_nice(varname).val]
                ELSE attrs
    /\ UNCHANGED <<gattrs, coords, dres, gres, nrecon, kept, job, drv>>

CallUnitsNice(varname) ==
    /\ Ready
    /\ ures' = [op |-> "units_nice", varname |-> varname, expected |-> None,
                nice |-> TRUE, exc |-> units_nice(varname).exc,
                val |-> units_nice(varname).val]
    /\ UNCHANGED <<attrs, gattrs, coords, dres, gres, nrecon, kept, job, drv>>

CallCheckUnits(varname, expected, nice) ==
    /\ Ready
    /\ ures' = [op |-> "check_units", varname |-> varname, expected |-> expected,
                nice |-> nice, exc |-> check_units(varname, expected, nice).exc,
                val |-> None]
    /\ UNCHANGED <<attrs, gattrs, coords, dres, gres, nrecon, kept, job, drv>>

(***************************************************************************)
(* Evaluations of derived variables.                                       *)
(***************************************************************************)

\* A faulty variant: a result returned before for the same variable and
\* subscript is returned again, without reading the dataset.
CallEvaluate_cached(q, s) ==
    /\ Ready
    /\ dres' = IF \E i \in 1..Len(kept) : kept[i].q = q /\ kept[i].s = s
               THEN LET i == CHOOSE i \in 1..Len(kept) :
                                 kept[i].q = q /\ kept[i].s = s
                    IN  [q |-> q, s |-> s, log |-> <<>>, exc |-> NoExc,
                         val |-> kept[i].val]
               ELSE [q |-> q, s |-> s, log |-> Evaluate(q, s).log,
                     exc |-> Evaluate(q, s).exc,
                     val |-> IF Evaluate(q, s).exc.kind = "none"
                             THEN Evaluate(q, s).stack[Len(Evaluate(q, s).stack)]
                             ELSE Value(<<>>, <<>>)]
    /\ UNCHANGED <<attrs, gattrs, coords, ures, gres, nrecon, kept, job, drv>>

CallEvaluate(q, s) ==
    /\ Ready
    /\ dres' = [q |-> q, s |-> s, log |-> Evaluate(q, s).log,
                exc |-> Evaluate(q, s).exc,
                val |-> IF Evaluate(q, s).exc.kind = "none"
                        THEN Evaluate(q, s).stack[Len(Evaluate(q, s).stack)]
                        ELSE Value(<<>>, <<>>)]
    /\ UNCHANGED <<attrs, gattrs, coords, ures, gres, nrecon, kept, job, drv>>

\* The caller holds at most this many derived arrays.
MaxKept == 2

\* array = ds.wrf.<q>[subscript]: the caller keeps the array it was given.
Keep ==
    /\ dres.q # "none"
    /\ dres.exc.kind = "none"
    /\ Len(kept) < MaxKept
    /\ kept' = Append(kept, [q |-> dres.q, s |-> dres.s, val |-> dres.val])
    /\ dres' = NoEvaluation
    /\ UNCHANGED <<attrs, gattrs, coords, ures, gres, nrecon, job, drv>>

\* ds[v].attrs = ...: between two calls, the owner of the dataset gives
\* variable v other attributes; the accessor and the derived variables
\* hold a reference to the dataset, not a copy.
EditAttrs(v, a) ==
    /\ Ready
    /\ attrs[v] # a
    /\ attrs' = [attrs EXCEPT ![v] = a]
    /\ UNCHANGED <<gattrs, coords, ures, dres, gres, nrecon, kept, job, drv>>

(***************************************************************************)
(* Projection metadata.                                                    *)
(*                                                                         *)
(* Angles are integers counting 1e-5 degree, so that values that differ    *)
(* only beyond the fourth decimal can be told apart.                       *)
(***************************************************************************)

Deg(d) == d * 100000

\* round(x, 4), counting 1e-4 degree.  The values of the model never end in
\* a 5 at the fifth decimal: what Python returns there depends on the binary
\* representation of x.
round4(v) == IF v % 10 < 5 THEN v \div 10 ELSE v \div 10 + 1

\* The projection codes WRF documents, and two that it does not.
DocumentedCodes == {0, 1, 2, 3, 4, 5, 6, 102, 105, 203}

ProjCodes == DocumentedCodes \cup {7, -1}

LatValues == {7000000, 7000004, 7000006}

LonValues == {Deg(-45), Deg(10)}

GlobalAttrs ==
    [POLE_LON : {0, Deg(10)},
     POLE_LAT : {Deg(90), Deg(-90), Deg(45)},
     MAP_PROJ : ProjCodes,
     MAP_PROJ_CHAR : {Absent, "Lambert Conformal Conic", "Polar Stereographic"},
     STAND_LON : LonValues,
     CEN_LON : LonValues,
     CEN_LAT : {7000000, 7000004},
     MOAD_CEN_LAT : LatValues,
     TRUELAT1 : LatValues \cup {Deg(60)},
     TRUELAT2 : LatValues \cup {Deg(60)}]

AttrNames ==
    {"POLE_LON", "POLE_LAT", "MAP_PROJ", "MAP_PROJ_CHAR", "STAND_LON",
     "CEN_LON", "CEN_LAT", "MOAD_CEN_LAT", "TRUELAT1", "TRUELAT2"}

\* The attributes of a Lambert conformal conic domain, as WRF writes them.
LccAttrs ==
    [POLE_LON |-> 0, POLE_LAT |-> Deg(90), MAP_PROJ |-> 1,
     MAP_PROJ_CHAR |-> "Lambert Conformal Conic",
     STAND_LON |-> Deg(-45), CEN_LON |-> Deg(-45),
     CEN_LAT |-> 7000000, MOAD_CEN_LAT |-> 7000000,
     TRUELAT1 |-> 7000000, TRUELAT2 |-> Deg(60)]

\* The attributes of a polar stereographic domain, as WRF writes them.
PolarAttrs ==
    [POLE_LON |-> 0, POLE_LAT |-> Deg(90), MAP_PROJ |-> 2,
     MAP_PROJ_CHAR |-> "Polar Stereographic",
     STAND_LON |-> Deg(-45), CEN_LON |-> Deg(-45),
     CEN_LAT |-> 7000000, MOAD_CEN_LAT |-> 7000000,
     TRUELAT1 |-> 7000000, TRUELAT2 |-> 7000000]

\* The attributes in which g differs from b.
Changed(g, b) == {k \in AttrNames : g[k] # b[k]}

\* At most this many attributes differ from what WRF writes.
MaxBadAttrs == 2

(***************************************************************************)
(* WRFDatasetAccessor.crs_pyproj, _crs_pyproj_lcc, _crs_pyproj_polarstereo *)
(*                                                                         *)
(* The (pyproj) descriptor is the dictionary given to pyproj.CRS.from_dict.*)
(***************************************************************************)

NoCrs == [proj |-> "none"]

\* A faulty variant: the two central latitudes are not compared.
crs_pyproj_lcc_no_latitude_check ==
    LET proj_name == "Lambert Conformal Conic"
        map_proj_char == IF gattrs.MAP_PROJ_CHAR = Absent
                         THEN proj_name ELSE gattrs.MAP_PROJ_CHAR
    IN  IF map_proj_char # proj_name
        THEN [exc |-> Raised("ValueError", <<"Invalid value for MAP_PROJ_CHAR.">>),
              crs |-> NoCrs]
        ELSE IF gattrs.STAND_LON # gattrs.CEN_LON
        THEN [exc |-> Raised("ValueError",
                             <<"Inconsistency in central longitude values.">>),
              crs |-> NoCrs]
        ELSE [exc |-> NoExc,
              crs |-> [proj |-> "lcc", lat_0 |-> gattrs.CEN_LAT,
                       lon_0 |-> gattrs.CEN_LON, lat_1 |-> gattrs.TRUELAT1,
                       lat_2 |-> gattrs.TRUELAT2]]

crs_pyproj_lcc ==
    LET proj_name == "Lambert Conformal Conic"
        map_proj_char == IF gattrs.MAP_PROJ_CHAR = Absent
                         THEN proj_name ELSE gattrs.MAP_PROJ_CHAR
    IN  IF map_proj_char # proj_name
        THEN [exc |-> Raised("ValueError", <<"Invalid value for MAP_PROJ_CHAR.">>),
              crs |-> NoCrs]
        ELSE IF gattrs.STAND_LON # gattrs.CEN_LON
        THEN [exc |-> Raised("ValueError",
                             <<"Inconsistency in central longitude values.">>),
              crs |-> NoCrs]
        ELSE IF gattrs.MOAD_CEN_LAT # gattrs.CEN_LAT
        THEN [exc |-> Raised("ValueError",
                             <<"Inconsistency in central latitude values.">>),
              crs |-> NoCrs]
        ELSE [exc |-> NoExc,
              crs |-> [proj |-> "lcc", lat_0 |-> gattrs.CEN_LAT,
                       lon_0 |-> gattrs.CEN_LON, lat_1 |-> gattrs.TRUELAT1,
                       lat_2 |-> gattrs.TRUELAT2]]

\* A faulty variant: the latitudes are compared without rounding.
crs_pyproj_polarstereo_exact ==
    LET proj_name == "Polar Stereographic"
        map_proj_char == IF gattrs.MAP_PROJ_CHAR = Absent
                         THEN proj_name ELSE gattrs.MAP_PROJ_CHAR
    IN  IF map_proj_char # proj_name
        THEN [exc |-> Raised("ValueError", <<"Invalid value for MAP_PROJ_CHAR.">>),
              crs |-> NoCrs]
        ELSE IF gattrs.STAND_LON # gattrs.CEN_LON
        THEN [exc |-> Raised("ValueError",
                             <<"Inconsistency in central longitude values.">>),
              crs |-> NoCrs]
        ELSE IF \E which \in {"TRUELAT1", "TRUELAT2", "MOAD_CEN_LAT"} :
                    gattrs[which] # gattrs.CEN_LAT
        THEN [exc |-> Raised("ValueError",
                             <<"Inconsistency in true latitude values.">>),
              crs |-> NoCrs]
        ELSE [exc |-> NoExc,
              crs |-> [proj |-> "stere", lat_0 |-> gattrs.POLE_LAT,
                       lat_ts |-> gattrs.TRUELAT1, lon_0 |-> gattrs.CEN_LON]]

crs_pyproj_polarstereo ==
    LET proj_name == "Polar Stereographic"
        map_proj_char == IF gattrs.MAP_PROJ_CHAR = Absent
                         THEN proj_name ELSE gattrs.MAP_PROJ_CHAR
    IN  IF map_proj_char # proj_name
        THEN [exc |-> Raised("ValueError", <<"Invalid value for MAP_PROJ_CHAR.">>),
              crs |-> NoCrs]
        ELSE IF gattrs.STAND_LON # gattrs.CEN_LON
        THEN [exc |-> Raised("ValueError",
                             <<"Inconsistency in central longitude values.">>),
              crs |-> NoCrs]
        ELSE IF \E which \in {"TRUELAT1", "TRUELAT2", "MOAD_CEN_LAT"} :
                    round4(gattrs[which]) # round4(gattrs.CEN_LAT)
        THEN [exc |-> Raised("ValueError",
                             <<"Inconsistency in true latitude values.">>),
              crs |-> NoCrs]
        ELSE [exc |-> NoExc,
              crs |-> [proj |-> "stere", lat_0 |-> gattrs.POLE_LAT,
                       lat_ts |-> gattrs.TRUELAT1, lon_0 |-> gattrs.CEN_LON]]

\* A faulty variant: the projection code is looked at before the pole.
crs_pyproj_dispatch_first ==
    LET proj == gattrs.MAP_PROJ IN
    IF proj \in {0, 102, 3, 4, 5, 6, 105, 203}
    THEN [exc |-> Raised("NotImplementedError", <<"Projection code ", proj>>),
          crs |-> NoCrs]
    ELSE IF gattrs.POLE_LON # 0
    THEN [exc |-> Raised("ValueError", <<"Invalid POLE_LON: ", gattrs.POLE_LON>>),
          crs |-> NoCrs]
    ELSE IF gattrs.POLE_LAT \notin {Deg(90), Deg(-90)}
    THEN [exc |-> Raised("ValueError", <<"Invalid value for attribute POLE_LAT.">>),
          crs |-> NoCrs]
    ELSE IF proj = 1 THEN crs_pyproj_lcc
    ELSE IF proj = 2 THEN crs_pyproj_polarstereo
    ELSE [exc |-> Raised("ValueError", <<"Invalid projection code: ", proj>>),
          crs |-> NoCrs]

\* A faulty variant: a code is missing from the list of unsupported ones.
crs_pyproj_short_list ==
    LET proj == gattrs.MAP_PROJ IN
    IF gattrs.POLE_LON # 0
    THEN [exc |-> Raised("ValueError", <<"Invalid POLE_LON: ", gattrs.POLE_LON>>),
          crs |-> NoCrs]
    ELSE IF gattrs.POLE_LAT \notin {Deg(90), Deg(-90)}
    THEN [exc |-> Raised("ValueError", <<"Invalid value for attribute POLE_LAT.">>),
          crs |-> NoCrs]
    ELSE IF proj = 1 THEN crs_pyproj_lcc
    ELSE IF proj = 2 THEN crs_pyproj_polarstereo
    ELSE IF proj \in {0, 102, 3, 4, 5, 6, 105}
    THEN [exc |-> Raised("NotImplementedError", <<"Projection code ", proj>>),
          crs |-> NoCrs]
    ELSE [exc |-> Raised("ValueError", <<"Invalid projection code: ", proj>>),
          crs |-> NoCrs]

crs_pyproj ==
    LET proj == gattrs.MAP_PROJ IN
    IF gattrs.POLE_LON # 0
    THEN [exc |-> Raised("ValueError", <<"Invalid POLE_LON: ", gattrs.POLE_LON>>),
          crs |-> NoCrs]
    ELSE IF gattrs.POLE_LAT \notin {Deg(90), Deg(-90)}
    THEN [exc |-> Raised("ValueError", <<"Invalid value for attribute POLE_LAT.">>),
          crs |-> NoCrs]
    ELSE IF proj = 1 THEN crs_pyproj_lcc
    ELSE IF proj = 2 THEN crs_pyproj_polarstereo
    ELSE IF proj \in {0, 102, 3, 4, 5, 6, 105, 203}
    THEN [exc |-> Raised("NotImplementedError", <<"Projection code ", proj>>),
          crs |-> NoCrs]
    ELSE [exc |-> Raised("ValueError", <<"Invalid projection code: ", proj>>),
          crs |-> NoCrs]

(***************************************************************************)
(* WRFDatasetAccessor.crs_cartopy: the cartopy projection built from the   *)
(* dictionary of the pyproj one.                                           *)
(***************************************************************************)

crs_cartopy ==
    LET p == crs_pyproj IN
    IF p.exc.kind # "none" THEN p
    ELSE IF p.crs.proj = "lcc"
    THEN [exc |-> NoExc,
          crs |-> [class |-> "LambertConformal",
                   central_longitude |-> p.crs.lon_0,
                   central_latitude |-> p.crs.lat_0,
                   standard_parallels |-> <<p.crs.lat_1, p.crs.lat_2>>]]
    ELSE IF p.crs.proj = "stere"
    THEN [exc |-> NoExc,
          crs |-> [class |-> "Stereographic",
                   central_longitude |-> p.crs.lon_0,
                   central_latitude |-> p.crs.lat_0,
                   true_scale_latitude |-> p.crs.lat_ts]]
    ELSE [exc |-> Raised("ValueError", <<"Unsupported projection: ", p.crs.proj>>),
          crs |-> NoCrs]

(***************************************************************************)
(* Geographic calls.                                                       *)
(*                                                                         *)
(* A call is a run, as for derived variables.  Its steps are               *)
(*   <<"crs_pyproj">>          the projection was reconstructed (or the    *)
(*                             attempt raised)                             *)
(*   <<"transform", what>>     a pyproj transformer was built and applied  *)
(*   <<"dimensionality">>, <<"query">>, <<"selectors">>, <<"isel">>,       *)
(*   <<"lonlat_var">>, <<"delaunay">>, <<"interpolate", t, z>>,            *)
(*   <<"assemble">>            the stages of interp_h                      *)
(***************************************************************************)

NewGeoRun == [log |-> <<>>, exc |-> NoExc, val |-> None]

Step(g, what, exc, val) ==
    IF ~Going(g) THEN g
    ELSE [log |-> Append(g.log, what), exc |-> exc, val |-> val]

\* A faulty variant: the projection is kept from the first query on.
crs_cached(g) ==
    IF nrecon > 0 \/ \E i \in 1..Len(g.log) : g.log[i] = <<"crs_pyproj">>
    THEN IF crs_cartopy.exc.kind = "none"
         THEN [g EXCEPT !.val = crs_cartopy.crs]
         ELSE [g EXCEPT !.exc = crs_cartopy.exc]
    ELSE Step(g, <<"crs_pyproj">>, crs_cartopy.exc, crs_cartopy.crs)

\* A faulty variant: the error of the reconstruction is swallowed.
crs_unchecked(g) == Step(g, <<"crs_pyproj">>, NoExc, crs_cartopy.crs)

\* GenericDatasetAccessor.crs: self.crs_cartopy, evaluated at every access.
crs(g) == Step(g, <<"crs_pyproj">>, crs_cartopy.exc, crs_cartopy.crs)

\* _transformer_from_crs(crs, reverse) and tr.transform(...)
transform(g, what) == Step(g, <<"transform", what>>, NoExc, what)

ll2xy(g, what) == transform(crs(g), what)

xy2ll(g) == transform(crs(g), "lonlat")

(***************************************************************************)
(* WRFDatasetAccessor.dimensionality and lonlat_var                        *)
(***************************************************************************)

\* A faulty variant: the staggered labels are not recognised.
RECURSIVE dimensionality_unstaggered_only(_)
dimensionality_unstaggered_only(dims) ==
    IF dims = <<>> THEN [exc |-> NoExc, val |-> <<>>]
    ELSE LET dim == Head(dims)
             c == CASE dim = "Time" -> "t"
                    [] dim = "bottom_top" -> "z"
                    [] dim = "south_north" -> "y"
                    [] dim = "west_east" -> "x"
                    [] OTHER -> "?"
             rest == dimensionality_unstaggered_only(Tail(dims))
         IN  IF c = "?"
             THEN [exc |-> Raised("ValueError", <<"Unknown dimension: ", dim>>),
                   val |-> <<>>]
             ELSE IF rest.exc.kind # "none" THEN rest
             ELSE [exc |-> NoExc, val |-> <<c>> \o rest.val]

RECURSIVE dimensionality(_)
dimensionality(dims) ==
    IF dims = <<>> THEN [exc |-> NoExc, val |-> <<>>]
    ELSE LET dim == Head(dims)
             c == CASE dim = "Time" -> "t"
                    [] dim \in {"bottom_top", "bottom_top_stag"} -> "z"
                    [] dim \in {"south_north", "south_north_stag"} -> "y"
                    [] dim \in {"west_east", "west_east_stag"} -> "x"
                    [] OTHER -> "?"
             rest == dimensionality(Tail(dims))
         IN  IF c = "?"
             THEN [exc |-> Raised("ValueError", <<"Unknown dimension: ", dim>>),
                   val |-> <<>>]
             ELSE IF rest.exc.kind # "none" THEN rest
             ELSE [exc |-> NoExc, val |-> <<c>> \o rest.val]

IsHorizontal(dim) ==
    dim \in {"south_north", "south_north_stag", "west_east", "west_east_stag"}

\* The stored longitude/latitude pairs, by the name of the longitude.
LonLatPairs == {"XLONG", "XLONG_V", "XLONG_U"}

\* The horizontal dimensions of each stored pair.
HDims(pair) ==
    CASE pair = "XLONG" -> <<"south_north", "west_east">>
      [] pair = "XLONG_V" -> <<"south_north_stag", "west_east">>
      [] pair = "XLONG_U" -> <<"south_north", "west_east_stag">>

\* A stored array: its dims and, per index of its first axis, the values
\* of that slice (a number stands for a whole slice).
Stored(dims, slices) == [dims |-> dims, slices |-> slices]

\* Each horizontal axis has this many points.
NPoints == 3

Shape(a) == <<Len(a.slices)>> \o [i \in 1..(Len(a.dims) - 1) |-> NPoints]

\* A faulty variant: the latitude is not compared.
SliceDiffers_lon_only(lon, lat, t) == lon.slices[t + 1] # lon.slices[1]

\* The test of the loop over t, for one time index (from 0).
SliceDiffers(lon, lat, t) ==
    lon.slices[t + 1] # lon.slices[1] \/ lat.slices[t + 1] # lat.slices[1]

\* The stored pair for the horizontal dims h of a variable.
StaggeredPair(h) ==
    CASE h = <<"south_north", "west_east">> -> "XLONG"
      [] h = <<"south_north_stag", "west_east">> -> "XLONG_V"
      [] h = <<"south_north", "west_east_stag">> -> "XLONG_U"
      [] OTHER -> "none"

lonlat_var(dims) ==
    LET h == SelectSeq(dims, IsHorizontal)
        pair == StaggeredPair(h)
        lon == coords[pair].lon
        lat == coords[pair].lat
    IN  IF pair = "none"
        THEN [exc |-> Raised("ValueError", <<"Cannot get lon/lat for variable">>),
              val |-> None]
        ELSE IF lon.dims # lat.dims \/ Shape(lon) # Shape(lat)
        THEN [exc |-> Raised("ValueError",
                  <<"Inconsistent dims or shapes for longitudes and latitudes.">>),
              val |-> None]
        ELSE IF lon.dims[1] # "Time"
        THEN [exc |-> Raised("ValueError",
                  <<"Expecting first dimension to be Time">>),
              val |-> None]
        ELSE IF \E tt \in 1..(Len(lon.slices) - 1) : SliceDiffers(lon, lat, tt)
        THEN [exc |-> Raised("ValueError",
                  <<"Longitude and/or latitude not constant with time.">>),
              val |-> None]
        ELSE [exc |-> NoExc, val |-> pair]

(***************************************************************************)
(* WRFDatasetAccessor.interp_h                                             *)
(*                                                                         *)
(* The variable is given by its dims.  A query (lon or lat) is a Python    *)
(* scalar, a Python list of numbers (neither has a shape attribute) or an  *)
(* array of some shape.  A selector (times or levels) is None, one integer *)
(* or a sequence of integers.                                              *)
(***************************************************************************)

\* The number of time steps and of (unstaggered) levels of the dataset.
NTimes == 2

NLevels == 2

AxisLen(dim) ==
    CASE dim = "Time" -> NTimes
      [] dim = "bottom_top" -> NLevels
      [] dim = "bottom_top_stag" -> NLevels + 1
      [] OTHER -> NPoints

\* A query: how it is given, its shape, and where its points lie: "inside"
\* the domain away from the grid points, "outside" the convex hull of the
\* grid points, or on the grid points of a stored pair (the name of its
\* longitude).
Scalar == [kind |-> "scalar", shape |-> <<>>, at |-> "inside"]

List(n) == [kind |-> "list", shape |-> <<n>>, at |-> "inside"]

Array(shape) == [kind |-> "array", shape |-> shape, at |-> "inside"]

Outside == [kind |-> "scalar", shape |-> <<>>, at |-> "outside"]

\* ds[pair].values[0, :, :]: the stored grid of a pair, given as the query.
Native(pair) == [kind |-> "array", shape |-> <<NPoints, NPoints>>, at |-> pair]

\* The shape after "if not hasattr(x, 'shape'): x = np.array([x])".
AsArray(x) ==
    IF x.kind = "array" THEN x.shape ELSE <<1>> \o x.shape

SelNone == [kind |-> "none", idx |-> <<>>]

SelInt(i) == [kind |-> "int", idx |-> <<i>>]

SelSeq(s) == [kind |-> "seq", idx |-> s]

\* The position (from 1) of letter c in dimensionality d, 0 when absent.
IndexOf(d, c) ==
    IF \E i \in 1..Len(d) : d[i] = c
    THEN CHOOSE i \in 1..Len(d) : d[i] = c /\ \A j \in 1..(i - 1) : d[j] # c
    ELSE 0

\* A faulty variant: a sequence of indices is taken in reverse.
Indices_reversed(sel, n) ==
    IF sel.kind = "none" THEN [i \in 1..n |-> i - 1]
    ELSE [i \in 1..Len(sel.idx) |-> sel.idx[Len(sel.idx) + 1 - i]]

\* The list of indices that a selector stands for on an axis of length n.
Indices(sel, n) ==
    IF sel.kind = "none" THEN [i \in 1..n |-> i - 1] ELSE sel.idx

\* A faulty variant: the vectors are meshgridded with indexing="ij".
QueryShape_ij(lon, lat) ==
    LET ls == AsArray(lon)
        ps == AsArray(lat)
        mesh == Len(ls) = 1 /\ Len(ps) = 1
        lon2 == IF mesh THEN <<ls[1], ps[1]>> ELSE ls
        lat2 == IF mesh THEN <<ls[1], ps[1]>> ELSE ps
    IN  IF ~mesh /\ (Len(ls) # 2 \/ Len(ps) # 2)
        THEN [exc |-> Raised("ValueError",
                  <<"lon and lat must be scalars, vectors, or 2D arrays.">>),
              val |-> <<>>]
        ELSE IF lon2 # lat2
        THEN [exc |-> Raised("ValueError",
                  <<"lon and lat must have the same shape.">>),
              val |-> <<>>]
        ELSE [exc |-> NoExc, val |-> lon2]

\* The shapes of lon and lat after the meshgrid stage, or the error.
QueryShape(lon, lat) ==
    LET ls == AsArray(lon)
        ps == AsArray(lat)
        mesh == Len(ls) = 1 /\ Len(ps) = 1
        lon2 == IF mesh THEN <<ps[1], ls[1]>> ELSE ls
        lat2 == IF mesh THEN <<ps[1], ls[1]>> ELSE ps
    IN  IF ~mesh /\ (Len(ls) # 2 \/ Len(ps) # 2)
        THEN [exc |-> Raised("ValueError",
                  <<"lon and lat must be scalars, vectors, or 2D arrays.">>),
              val |-> <<>>]
        ELSE IF lon2 # lat2
        THEN [exc |-> Raised("ValueError",
                  <<"lon and lat must have the same shape.">>),
              val |-> <<>>]
        ELSE [exc |-> NoExc, val |-> lon2]

\* A faulty variant: a selector for an axis the variable lacks is ignored.
Selector_lenient(d, dims, c, sel) ==
    IF IndexOf(d, c) # 0
    THEN [exc |-> NoExc, val |-> Indices(sel, AxisLen(dims[IndexOf(d, c)]))]
    ELSE [exc |-> NoExc, val |-> <<>>]

\* The selector of one axis (c is "t" or "z"), or the error.
Selector(d, dims, c, sel) ==
    IF IndexOf(d, c) = 0 /\ sel.kind # "none"
    THEN [exc |-> Raised("ValueError", <<"Cannot specify selector for variable", c>>),
          val |-> <<>>]
    ELSE IF IndexOf(d, c) # 0
    THEN [exc |-> NoExc, val |-> Indices(sel, AxisLen(dims[IndexOf(d, c)]))]
    ELSE [exc |-> NoExc, val |-> <<>>]

\* data.isel(**selection): IndexError when an index is outside the axis.
Isel(d, dims, c, idx) ==
    IF IndexOf(d, c) # 0
       /\ \E i \in 1..Len(idx) :
              LET n == AxisLen(dims[IndexOf(d, c)]) IN idx[i] >= n \/ idx[i] < -n
    THEN Raised("IndexError", <<"index out of bounds">>)
    ELSE NoExc

\* values_in = data.isel(**selection).values: position k (from 1) along an
\* axis holds the native slice of index idx[k].  A slice is named by its
\* native indices, <<t>> or <<t, z>>.
ValuesIn(times, levels, k, j) ==
    IF j = 0 THEN <<times[k]>> ELSE <<times[k], levels[j]>>

\* np.full(shape, np.nan): NaN is written <<>>.
Full(times, levels, withz) ==
    IF withz THEN [k \in 1..Len(times) |-> [j \in 1..Len(levels) |-> <<>>]]
    ELSE [k \in 1..Len(times) |-> <<>>]

\* The loop over z of the "tzyx" branch, for position k of the times:
\* values_out[t, z, :] = interpolator(delaunay, values_in[t, z, :, :])(x, y)
RECURSIVE InterpolateLevels(_, _, _, _, _)
InterpolateLevels(g, times, k, levels, j) ==
    IF j > Len(levels) THEN g
    ELSE InterpolateLevels(
             Step(g, <<"interpolate", times[k], levels[j]>>, NoExc,
                  [g.val EXCEPT !.values[k][j] = ValuesIn(times, levels, k, j)]),
             times, k, levels, j + 1)

\* The loop over t of the "tzyx" branch.
RECURSIVE InterpolateTZ(_, _, _, _)
InterpolateTZ(g, times, levels, k) ==
    IF k > Len(times) THEN g
    ELSE InterpolateTZ(InterpolateLevels(g, times, k, levels, 1),
                       times, levels, k + 1)

\* The loop over t of the "tyx" branch:
\* values_out[t, :] = interpolator(delaunay, values_in[t, :, :])(x, y)
RECURSIVE InterpolateT(_, _, _)
InterpolateT(g, times, k) ==
    IF k > Len(times) THEN g
    ELSE InterpolateT(Step(g, <<"interpolate", times[k]>>, NoExc,
                           [g.val EXCEPT !.values[k] = ValuesIn(times, <<>>, k, 0)]),
                      times, k + 1)

\* A faulty variant: the triangulation is always that of the unstaggered grid.
delaunay_xy_unstaggered(dims) == lonlat_var(<<"Time", "south_north", "west_east">>)

\* _delaunay_xy: the triangulation of the grid points of lonlat_var(varname).
delaunay_xy(dims) == lonlat_var(dims)

\* scipy.interpolate.LinearNDInterpolator(delaunay, values)(x, y), with its
\* default fill_value: NaN outside the convex hull of the triangulated
\* points, the value of a vertex at that vertex, and a weighted mean of the
\* three vertices of the enclosing triangle elsewhere.
LinearNDInterpolator(tri, lon, lat) ==
    IF lon.at = "outside" \/ lat.at = "outside" THEN "nan"
    ELSE IF lon.at = tri /\ lat.at = tri THEN "vertex"
    ELSE "mean"

\* A faulty variant: every three-letter dimensionality is handled as tyx.
Branch_by_length(d) ==
    IF Len(d) = 3 THEN "tyx"
    ELSE IF d = <<"t", "z", "y", "x">> THEN "tzyx"
    ELSE "else"

\* The branch taken for dimensionality d.
Branch(d) ==
    IF d = <<"t", "y", "x">> THEN "tyx"
    ELSE IF d = <<"t", "z", "y", "x">> THEN "tzyx"
    ELSE "else"

interp_h(dims, lon, lat, times, levels) ==
    LET dm == dimensionality(dims)
        d  == dm.val
        g1 == Step(NewGeoRun, <<"dimensionality">>, dm.exc, None)
        qs == QueryShape(lon, lat)
        g2 == Step(g1, <<"query">>, qs.exc, None)
        st == IF Going(g2) THEN Selector(d, dims, "t", times)
              ELSE [exc |-> NoExc, val |-> <<>>]
        sz == IF Going(g2) /\ st.exc.kind = "none" THEN Selector(d, dims, "z", levels)
              ELSE [exc |-> NoExc, val |-> <<>>]
        g3 == Step(g2, <<"selectors">>,
                   IF st.exc.kind # "none" THEN st.exc ELSE sz.exc, None)
        g4 == Step(g3, <<"isel">>,
                   IF Isel(d, dims, "t", st.val).kind # "none"
                   THEN Isel(d, dims, "t", st.val)
                   ELSE Isel(d, dims, "z", sz.val), None)
        \* _delaunay_xy
        ll == IF Going(g4) THEN delaunay_xy(dims) ELSE [exc |-> NoExc, val |-> None]
        g5 == Step(g4, <<"lonlat_var">>, ll.exc, ll.val)
        g6 == Step(ll2xy(g5, "grid"), <<"delaunay">>, NoExc, None)
        g7 == ll2xy(g6, "query")
        \* the two supported dimensionalities
        g8 == IF Branch(d) = "tyx"
              THEN InterpolateT(
                       Step(g7, <<"full">>, NoExc,
                            [shape |-> <<Len(st.val)>> \o qs.val,
                             values |-> Full(st.val, sz.val, FALSE)]),
                       st.val, 1)
              ELSE IF Branch(d) = "tzyx"
              THEN InterpolateTZ(
                       Step(g7, <<"full">>, NoExc,
                            [shape |-> <<Len(st.val), Len(sz.val)>> \o qs.val,
                             values |-> Full(st.val, sz.val, TRUE)]),
                       st.val, sz.val, 1)
              ELSE Step(g7, <<"dispatch">>,
                        Raised("ValueError", <<"Unknown dimensionality: ", d>>), None)
    \* xr.DataArray(values_out, dims=data.dims, coords={"XTIME": ..., ...})
    IN  Step(g8, <<"assemble">>, NoExc,
             [shape |-> g8.val.shape, values |-> g8.val.values,
              points |-> LinearNDInterpolator(ll.val, lon, lat),
              dims |-> dims, xtime |-> st.val])

(***************************************************************************)
(* Calls of the geographic functions.                                      *)
(***************************************************************************)

\* The number of reconstructions of the projection in a run.
Reconstructions(log) ==
    Cardinality({i \in 1..Len(log) : Head(log[i]) = "crs_pyproj"})

\* No geographic call starts once crs_pyproj has run this many times.
MaxRecon == 3

Record(op, args, g) ==
    /\ Ready
    /\ nrecon < MaxRecon
    /\ gres' = [op |-> op, args |-> args, log |-> g.log, exc |-> g.exc,
                val |-> IF g.exc.kind = "none" THEN g.val ELSE None]
    /\ nrecon' = nrecon + Reconstructions(g.log)
    /\ UNCHANGED <<attrs, gattrs, coords, ures, dres, kept, job, drv>>

\* ds.wrf.crs_pyproj
CallCrsPyproj ==
    Record("crs_pyproj", <<>>,
           Step(NewGeoRun, <<"crs_pyproj">>, crs_pyproj.exc, crs_pyproj.crs))

\* ds.wrf.crs
CallCrs == Record("crs", <<>>, crs(NewGeoRun))

\* ds.wrf.ll2xy(lon, lat)
CallLl2xy == Record("ll2xy", <<>>, ll2xy(NewGeoRun, "xy"))

\* ds.wrf.xy2ll(x, y)
CallXy2ll == Record("xy2ll", <<>>, xy2ll(NewGeoRun))

\* ds.wrf.interp_h(varname, lon, lat, times, levels)
CallInterpH(dims, lon, lat, times, levels) ==
    Record("interp_h",
           [dims |-> dims, lon |-> lon, lat |-> lat,
            times |-> times, levels |-> levels],
           interp_h(dims, lon, lat, times, levels))

\* ds.wrf.dimensionality(varname), for a variable with these dims
CallDimensionality(dims) ==
    Record("dimensionality", [dims |-> dims],
           Step(NewGeoRun, <<"dimensionality">>,
                dimensionality(dims).exc, dimensionality(dims).val))

\* ds.wrf.lonlat_var(varname), for a variable with these dims
CallLonlatVar(dims) ==
    Record("lonlat_var", [dims |-> dims],
           Step(NewGeoRun, <<"lonlat_var">>,
                lonlat_var(dims).exc, lonlat_var(dims).val))

(***************************************************************************)
(* The inputs of interp_h.                                                 *)
(***************************************************************************)

InterpDims ==
    {<<"Time", "south_north", "west_east">>,
     <<"Time", "bottom_top", "south_north", "west_east">>,
     <<"Time", "bottom_top_stag", "south_north", "west_east">>,
     <<"Time", "bottom_top", "south_north", "west_east_stag">>,
     <<"Time", "bottom_top", "south_north_stag", "west_east">>,
     <<"Time", "south_north_stag", "west_east_stag">>,
     <<"Time", "west_east", "south_north">>,
     <<"south_north", "west_east">>,
     <<"bottom_top", "south_north", "west_east">>,
     <<"Time", "bottom_top">>,
     <<"Time", "DateStrLen">>}

Queries ==
    {<<Scalar, Scalar>>, <<Array(<<3>>), Array(<<2>>)>>,
     <<Array(<<2, 3>>), Array(<<2, 3>>)>>, <<Array(<<2, 3>>), Array(<<3, 2>>)>>,
     <<Array(<<2>>), Array(<<2, 2>>)>>, <<Array(<<2, 2, 2>>), Array(<<2, 2, 2>>)>>,
     <<List(2), List(2)>>, <<Array(<<>>), Array(<<>>)>>,
     <<Outside, Outside>>, <<Native("XLONG"), Native("XLONG")>>,
     <<Native("XLONG_U"), Native("XLONG_U")>>}

TimeSelectors == {SelNone, SelInt(0), SelSeq(<<1, 0>>), SelInt(NTimes)}

LevelSelectors == {SelNone, SelInt(1), SelSeq(<<1, 0>>), SelSeq(<<NLevels + 1>>)}

(***************************************************************************)
(* value_around_point, as the specification of the accessor describes it   *)
(* (section 4.4); scripts of the repository call it                        *)
(* (plot-vertical-profiles.py, line 200).                                  *)
(***************************************************************************)

Modes == {"centre", "mean", "min", "max"}

\* The largest window that a caller asks for.
MaxWindow == 3

\* The query points: outside the domain, or nearest to grid cell <<x, y>>.
AroundPoints == {<<>>} \cup ((0..(NPoints - 1)) \X (0..(NPoints - 1)))

\* The cells of one axis in a window centred on cell i, clipped at the
\* edges of the domain.
Clipped(i, window) ==
    {j \in 0..(NPoints - 1) : j >= i - (window \div 2) /\ j <= i + (window \div 2)}

\* A faulty variant: only a non-positive window is refused.
value_around_point_any_parity(at, mode, window) ==
    LET g1 == Step(NewGeoRun, <<"window">>,
                   IF window < 1
                   THEN Raised("ValueError", <<"window must be a positive odd integer">>)
                   ELSE NoExc, None)
        g2 == Step(ll2xy(g1, "query"), <<"nearest_indices">>,
                   IF at = <<>>
                   THEN Raised("ValueError", <<"point outside domain">>)
                   ELSE NoExc, at)
    IN  Step(g2, <<"reduce", mode>>, NoExc,
             [mode |-> mode,
              cells |-> IF mode = "centre" \/ at = <<>> THEN {at}
                        ELSE Clipped(at[1], window) \X Clipped(at[2], window)])

\* value_around_point(lon, lat, mode, window): the window is validated,
\* nearest_indices finds the nearest cell (ValueError unless
\* is_inside_domain, which projects the query), and the cells of the
\* clipped neighbourhood are reduced.
value_around_point(at, mode, window) ==
    LET g1 == Step(NewGeoRun, <<"window">>,
                   IF window < 1 \/ window % 2 = 0
                   THEN Raised("ValueError", <<"window must be a positive odd integer">>)
                   ELSE NoExc, None)
        g2 == Step(ll2xy(g1, "query"), <<"nearest_indices">>,
                   IF at = <<>>
                   THEN Raised("ValueError", <<"point outside domain">>)
                   ELSE NoExc, at)
    IN  Step(g2, <<"reduce", mode>>, NoExc,
             [mode |-> mode,
              cells |-> IF mode = "centre" \/ at = <<>> THEN {at}
                        ELSE Clipped(at[1], window) \X Clipped(at[2], window)])

\* ds.wrf.value_around_point(lon, lat, mode, window)
CallValueAroundPoint(at, mode, window) ==
    Record("value_around_point", [at |-> at, mode |-> mode, window |-> window],
           value_around_point(at, mode, window))

(***************************************************************************)
(* The installation options (wrfinfra/compilation.py, wrfinfra/generic.py) *)
(* and the compilation of WPS (compile_WPS.py).                            *)
(***************************************************************************)

\* Python's True and False.
PyTrue == "<True>"

PyFalse == "<False>"

\* bool(x), for the values of the options.
Truthy(x) == x \notin {PyFalse, None, ""}

\* The options that the model follows, and the names an option file may
\* hold besides.
OptionNames == {"repository", "scheduler", "dry", "parallel"}

BoolOptions == {"scheduler", "dry", "parallel"}

\* The default values that prepare_argparser("WPS") gives them.
Defaults ==
    [repository |-> "https://github.com/wrf-model/WPS.git",
     scheduler |-> PyTrue, dry |-> PyFalse, parallel |-> PyTrue]

\* ConvertToBoolean.__call__: the Boolean that a text stands for, or Absent
\* when it raises ValueError.  lower is str.lower() on the texts of the
\* model.
ConvertToBoolean(values) ==
    LET lower == CASE values = "No" -> "no"
                   [] values = "YES" -> "yes"
                   [] OTHER -> values
    IN  IF lower \in {"true", "t", "yes", "y"} THEN PyTrue
        ELSE IF lower \in {"false", "f", "no", "n"} THEN PyFalse
        ELSE Absent

\* parser.parse_args(): each option is the value of the command line, run
\* through its action, or else its default, taken as it is.
parse_args(defaults, cli) ==
    IF \E o \in BoolOptions : cli[o] # Absent /\ ConvertToBoolean(cli[o]) = Absent
    THEN [exc |-> Raised("ValueError", <<"Could not convert to boolean.">>),
          opts |-> defaults]
    ELSE [exc |-> NoExc,
          opts |-> [o \in OptionNames |->
                       IF cli[o] = Absent THEN defaults[o]
                       ELSE IF o \in BoolOptions THEN ConvertToBoolean(cli[o])
                       ELSE cli[o]]]

\* A faulty variant: the values of the option file replace those of the
\* command line.
get_options_file_first(cli, file) ==
    LET first == parse_args(Defaults, cli)
        \* if opts.repository.startswith("http://"): raise ValueError
        CheckRepository(p) ==
            IF p.exc.kind = "none" /\ p.opts.repository \in {"http://host/WPS.git"}
            THEN [p EXCEPT !.exc = Raised("ValueError",
                               <<"We do not allow http connections (not secure).">>)]
            ELSE p
    IN
    IF first.exc.kind # "none" \/ file.kind = "none" THEN CheckRepository(first)
    ELSE IF file.kind # "dict"
    THEN [first EXCEPT !.exc = Raised("ValueError",
                           <<"Option file must represent a JSON dictionnary.">>)]
    ELSE IF \E optname \in DOMAIN file.d :
                file.d[optname] # Absent /\ optname \notin OptionNames
    THEN [first EXCEPT !.exc = Raised("ValueError", <<"Unknown option in file.">>)]
    ELSE CheckRepository(
             [first EXCEPT !.opts = [o \in OptionNames |->
                      IF file.d[o] # Absent THEN file.d[o] ELSE @[o]]])

\* get_options("WPS"): the command line is parsed, then parsed again with
\* the values of the option file as defaults.
get_options(cli, file) ==
    LET first == parse_args(Defaults, cli)
        \* if opts.repository.startswith("http://"): raise ValueError
        CheckRepository(p) ==
            IF p.exc.kind = "none" /\ p.opts.repository \in {"http://host/WPS.git"}
            THEN [p EXCEPT !.exc = Raised("ValueError",
                               <<"We do not allow http connections (not secure).">>)]
            ELSE p
    IN
    IF first.exc.kind # "none" \/ file.kind = "none" THEN CheckRepository(first)
    ELSE IF file.kind # "dict"
    THEN [first EXCEPT !.exc = Raised("ValueError",
                           <<"Option file must represent a JSON dictionnary.">>)]
    ELSE IF \E optname \in DOMAIN file.d :
                file.d[optname] # Absent /\ optname \notin OptionNames
    THEN [first EXCEPT !.exc = Raised("ValueError", <<"Unknown option in file.">>)]
    ELSE CheckRepository(
             parse_args([o \in OptionNames |->
                            IF file.d[o] # Absent THEN file.d[o] ELSE Defaults[o]],
                        cli))

\* The steps between get_options and the launch, in the order of the
\* script.
Preparation ==
    <<"clone_and_checkout", "write_options", "write_job_script",
      "process_patches", "process_extra_sources">>

Fail(kind, msg) ==
    job' = [job EXCEPT !.pc = "failed", !.exc = Raised(kind, msg)]

\* host = generic.identify_host_platform()
IdentifyHost ==
    /\ job.pc = "start"
    /\ IF job.host = "spirit" THEN job' = [job EXCEPT !.pc = "get_options"]
       ELSE Fail("NotImplementedError", <<"Unknown host platform.">>)
    /\ UNCHANGED <<attrs, gattrs, coords, ures, dres, gres, nrecon, kept, drv>>

\* opts = compilation.get_options("WPS")
GetOptions ==
    /\ job.pc = "get_options"
    /\ LET p == get_options(job.cli, job.file) IN
       IF p.exc.kind = "none"
       THEN job' = [job EXCEPT !.pc = Preparation[1], !.opts = p.opts]
       ELSE job' = [job EXCEPT !.pc = "failed", !.exc = p.exc]
    /\ UNCHANGED <<attrs, gattrs, coords, ures, dres, gres, nrecon, kept, drv>>

\* One step of the preparation; ok tells whether its commands and files
\* succeed.  write_job_script adds 1 + opts.parallel, a TypeError when
\* opts.parallel is a text.
Prepare(i, ok) ==
    /\ job.pc = Preparation[i]
    /\ IF Preparation[i] = "write_job_script"
          /\ job.opts.parallel \notin {PyTrue, PyFalse}
       THEN Fail("TypeError", <<"unsupported operand type(s) for +">>)
       ELSE IF ~ok
       THEN Fail(IF Preparation[i] \in {"write_options", "write_job_script"}
                 THEN "FileExistsError" ELSE "RuntimeError", <<>>)
       ELSE job' = [job EXCEPT
                       !.pc = IF i < Len(Preparation)
                              THEN Preparation[i + 1] ELSE "launch",
                       !.done = Append(@, Preparation[i])]
    /\ UNCHANGED <<attrs, gattrs, coords, ures, dres, gres, nrecon, kept, drv>>

\* A faulty variant: the compile script is launched in a dry run too.
Launch_also_when_dry(ok) ==
    /\ job.pc = "launch"
    /\ job' = [job EXCEPT
                   !.pc = IF ok THEN "exit" ELSE "failed",
                   !.exc = IF ok THEN NoExc ELSE Raised("RuntimeError", <<>>),
                   !.done = Append(@, IF Truthy(job.opts.scheduler)
                                      THEN "sbatch compile.job"
                                      ELSE "./compile.job")]
    /\ UNCHANGED <<attrs, gattrs, coords, ures, dres, gres, nrecon, kept, drv>>

\* if opts.dry: sys.exit(0); otherwise the compile script is submitted
\* with sbatch or run, and ok tells whether the command succeeds.
Launch(ok) ==
    /\ job.pc = "launch"
    /\ IF Truthy(job.opts.dry) THEN job' = [job EXCEPT !.pc = "exit"]
       ELSE job' = [job EXCEPT
                       !.pc = IF ok THEN "exit" ELSE "failed",
                       !.exc = IF ok THEN NoExc ELSE Raised("RuntimeError", <<>>),
                       !.done = Append(@, IF Truthy(job.opts.scheduler)
                                          THEN "sbatch compile.job"
                                          ELSE "./compile.job")]
    /\ UNCHANGED <<attrs, gattrs, coords, ures, dres, gres, nrecon, kept, drv>>

(***************************************************************************)
(* The test case that runs several versions of WRF                         *)
(* (test-case-multi-wrf.py).  drv is the state of the script: its place    *)
(* in the loop over the commits, the dictionary job_ids in the order of    *)
(* its insertions, last_job, and the jobs that reached the scheduler       *)
(* (subs), each with its name, its dependencies, the identifier that the   *)
(* scheduler gave it and the output of the command that submitted it.      *)
(* An output is a sequence of lines; a line is either the scheduler's      *)
(* 'Submitted batch job <id>' or anything else.                            *)
(***************************************************************************)

\* The largest number of commits given to --wrf-commits.
MaxCommits == 2

\* What the script does for each commit, in the order of the loop body.
Plan ==
    <<"Install WRF", "prepare WPS", "Install WPS", "clone WRF-infra",
      "Run WPS", "Run real", "Run WRF-Chem">>

\* A faulty variant: the first matching line is taken, however many
\* there are.
get_job_id_first_match(stdout) ==
    LET matches == SelectSeq(stdout, LAMBDA line : line.text = "Submitted batch job")
    IN  IF Len(matches) = 0
        THEN [exc |-> Raised("RuntimeError", <<"Could not determine unique job ID.">>),
              val |-> 0]
        ELSE [exc |-> NoExc, val |-> matches[1].id]

\* get_job_id: the identifier on the only line that matches
\* 'Submitted batch job [0-9]+', or the RuntimeError that it raises.
get_job_id(stdout) ==
    LET matches == SelectSeq(stdout, LAMBDA line : line.text = "Submitted batch job")
    IN  IF Len(matches) # 1
        THEN [exc |-> Raised("RuntimeError", <<"Could not determine unique job ID.">>),
              val |-> 0]
        ELSE [exc |-> NoExc, val |-> matches[1].id]

\* The outputs that the submission of the job id can have.
Stdouts(id) ==
    LET submitted == [text |-> "Submitted batch job", id |-> id]
        other == [text |-> "other", id |-> 0]
    IN  {<<submitted>>, <<other, submitted>>, <<other>>, <<submitted, submitted>>}

\* The state of the script after a step of the loop body has succeeded.
Advance(d) ==
    IF d.step < Len(Plan) THEN [d EXCEPT !.step = @ + 1]
    ELSE IF d.i < d.n THEN [d EXCEPT !.i = @ + 1, !.step = 1]
    ELSE [d EXCEPT !.pc = "analysis"]

\* A submission of the loop body: 'Install WRF i' through compile_WRF.py,
\* the others with sbatch -d afterok:{job_ids[last_job]}.  ok tells
\* whether the command returns zero; the job identifier is then read from
\* its output.  last_job is assigned before the command for the
\* installations and after it for the runs.
Submit(stdout, ok) ==
    /\ drv.pc = "loop"
    /\ Plan[drv.step] \notin {"prepare WPS", "clone WRF-infra"}
    /\ LET name == [job |-> Plan[drv.step], i |-> drv.i]
           previous == CHOOSE j \in 1..Len(drv.job_ids) :
                           drv.job_ids[j].key = drv.last_job
           deps == IF drv.step = 1 THEN <<>>
                   ELSE <<drv.job_ids[previous].value>>
           early == drv.step \in {1, 3}
           sub == [name |-> name, deps |-> deps, id |-> Len(drv.subs) + 1,
                   out |-> stdout]
       IN  IF ~ok
           THEN drv' = [drv EXCEPT !.pc = "failed",
                                   !.last_job = IF early THEN name ELSE @,
                                   !.exc = Raised("RuntimeError", <<"non-zero return code">>)]
           ELSE IF get_job_id(stdout).exc.kind # "none"
           THEN drv' = [drv EXCEPT !.pc = "failed",
                                   !.last_job = name,
                                   !.subs = Append(@, sub),
                                   !.exc = get_job_id(stdout).exc]
           ELSE drv' = Advance([drv EXCEPT
                                   !.last_job = name,
                                   !.subs = Append(@, sub),
                                   !.job_ids = Append(@, [key |-> name,
                                                    value |-> get_job_id(stdout).val])])
    /\ UNCHANGED <<attrs, gattrs, coords, ures, dres, gres, nrecon, kept, job>>

\* The steps of the loop body that submit nothing: compile_WPS.py with
\* --dry yes, and the clone of WRF-infra with the update of
\* simulation.conf.
Command(ok) ==
    /\ drv.pc = "loop"
    /\ Plan[drv.step] \in {"prepare WPS", "clone WRF-infra"}
    /\ drv' = IF ok THEN Advance(drv)
              ELSE [drv EXCEPT !.pc = "failed",
                               !.exc = Raised("RuntimeError", <<"non-zero return code">>)]
    /\ UNCHANGED <<attrs, gattrs, coords, ures, dres, gres, nrecon, kept, job>>

\* After the loop: the job that analyses the results, with afterok on
\* every value of job_ids.
Analyze(stdout, ok) ==
    /\ drv.pc = "analysis"
    /\ LET name == [job |-> "Analyze results", i |-> 0]
           sub == [name |-> name,
                   deps |-> [j \in 1..Len(drv.job_ids) |-> drv.job_ids[j].value],
                   id |-> Len(drv.subs) + 1, out |-> stdout]
       IN  IF ~ok
           THEN drv' = [drv EXCEPT !.pc = "failed",
                                   !.last_job = name,
                                   !.exc = Raised("RuntimeError", <<"non-zero return code">>)]
           ELSE IF get_job_id(stdout).exc.kind # "none"
           THEN drv' = [drv EXCEPT !.pc = "failed",
                                   !.last_job = name,
                                   !.subs = Append(@, sub),
                                   !.exc = get_job_id(stdout).exc]
           ELSE drv' = [drv EXCEPT !.pc = "done",
                                   !.last_job = name,
                                   !.subs = Append(@, sub),
                                   !.job_ids = Append(@, [key |-> name,
                                                    value |-> get_job_id(stdout).val])]
    /\ UNCHANGED <<attrs, gattrs, coords, ures, dres, gres, nrecon, kept, job>>

(***************************************************************************)
(* Specifications.  The accessor keeps no state of its own: each           *)
(* specification starts from a set of datasets and lets the calls of one   *)
(* part of the accessor happen in any order.                               *)
(***************************************************************************)

\* The pair as WRF writes it: constant with time.
OkPair(p) ==
    [lon |-> Stored(<<"Time">> \o HDims(p), [i \in 1..NTimes |-> 0]),
     lat |-> Stored(<<"Time">> \o HDims(p), [i \in 1..NTimes |-> 0])]

\* What else a stored pair can look like: latitude with other dims or
\* another shape than the longitude, no leading Time dimension, and a
\* longitude or a latitude that changes with time.
OtherPairs(p) ==
    {[OkPair(p) EXCEPT !.lat.dims = <<"Time">> \o <<HDims(p)[2], HDims(p)[1]>>],
     [OkPair(p) EXCEPT !.lat.slices = SubSeq(@, 1, NTimes - 1)],
     [lon |-> Stored(HDims(p), [i \in 1..NPoints |-> 0]),
      lat |-> Stored(HDims(p), [i \in 1..NPoints |-> 0])]}
    \cup {[OkPair(p) EXCEPT !.lon.slices = s] :
             s \in [1..NTimes -> {0, 1}] \ {[i \in 1..NTimes |-> 0]}}
    \cup {[OkPair(p) EXCEPT !.lat.slices = s] :
             s \in [1..NTimes -> {0, 1}] \ {[i \in 1..NTimes |-> 0]}}

AllOk == [p \in LonLatPairs |-> OkPair(p)]

Idle ==
    /\ ures = NoUnitsCall
    /\ dres = NoEvaluation
    /\ gres = NoGeoCall
    /\ nrecon = 0
    /\ kept = <<>>
    /\ job = [pc |-> "none"]
    /\ drv = [pc |-> "none"]

\* The unit functions, on a dataset in which one variable has any attributes.
InitUnits ==
    /\ \E w \in ProbeVars, a \in AllAttrs : attrs = [DefaultAttrs EXCEPT ![w] = a]
    /\ gattrs = LccAttrs
    /\ coords = AllOk
    /\ Idle

NextUnits ==
    \/ Return
    \/ /\ Ready
       /\ \E varname \in Vars :
            \/ CallUnits(varname)
            \/ CallUnitsNice(varname)
            \/ \E expected \in ExpectedUnits, nice \in BOOLEAN :
                   CallCheckUnits(varname, expected, nice)

SpecUnits == InitUnits /\ [][NextUnits]_vars

\* The derived variables, on a dataset in which at most MaxBadUnits raw
\* variables have other attributes than WRF writes.
InitDerived ==
    /\ \E S \in {S \in SUBSET RawVars : Cardinality(S) <= MaxBadUnits} :
         \E f \in {f \in [S -> 1..4] : \A v \in S : f[v] <= NumOtherAttrs(v)} :
            attrs = [v \in Vars |->
                        IF v \in S THEN OtherAttrs(v, f[v]) ELSE DefaultAttrs[v]]
    /\ gattrs = LccAttrs
    /\ coords = AllOk
    /\ Idle

NextDerived ==
    \/ Return
    \/ /\ Ready
       /\ \E q \in DerivedNames, s \in Subscripts : CallEvaluate(q, s)

SpecDerived == InitDerived /\ [][NextDerived]_vars

\* The reconstruction of the projection, on a dataset in which at most
\* MaxBadAttrs attributes differ from what WRF writes for one of the two
\* supported projections.
InitCrs ==
    /\ attrs = DefaultAttrs
    /\ gattrs \in {g \in GlobalAttrs :
                      \E b \in {LccAttrs, PolarAttrs} :
                          Cardinality(Changed(g, b)) <= MaxBadAttrs}
    /\ coords = AllOk
    /\ Idle

NextCrs == Return \/ CallCrsPyproj \/ CallCrs

SpecCrs == InitCrs /\ [][NextCrs]_vars

\* The geographic calls, on datasets with each outcome of the
\* reconstruction and each state of the stored coordinates.
GeoDatasets ==
    {LccAttrs, PolarAttrs,
     [LccAttrs EXCEPT !.POLE_LON = Deg(10)],
     [PolarAttrs EXCEPT !.MAP_PROJ = 3],
     [LccAttrs EXCEPT !.MAP_PROJ = 7],
     [LccAttrs EXCEPT !.STAND_LON = Deg(10)],
     [PolarAttrs EXCEPT !.TRUELAT2 = 7000006]}

InitGeo ==
    /\ attrs = DefaultAttrs
    /\ gattrs \in GeoDatasets
    /\ coords \in {AllOk} \cup
           UNION {{[AllOk EXCEPT ![p] = o] : o \in OtherPairs(p)} :
                     p \in LonLatPairs}
    /\ (gattrs = LccAttrs \/ coords = AllOk)
    /\ Idle

NextGeo ==
    \/ Return
    \/ /\ Ready
       /\ \/ CallCrs
          \/ CallLl2xy
          \/ CallXy2ll
          \/ \E dims \in InterpDims :
                 CallDimensionality(dims) \/ CallLonlatVar(dims)
          \/ \E dims \in InterpDims, q \in Queries,
                times \in TimeSelectors, levels \in LevelSelectors :
                 CallInterpH(dims, q[1], q[2], times, levels)

SpecGeo == InitGeo /\ [][NextGeo]_vars

\* A session: derived arrays are evaluated and kept while other calls of
\* the accessor succeed or fail, on datasets with a wrong unit, another
\* spelling of a unit or an unsupported projection.
SessionAttrs ==
    {DefaultAttrs,
     [DefaultAttrs EXCEPT !["PB"] = OtherAttrs("PB", 1)],
     [DefaultAttrs EXCEPT !["PH"] = OtherAttrs("PH", 4)]}

SessionDerived == {"atm_pressure", "altitude_asl"}

SessionSubscripts == {<<":">>, <<"0">>}

InitSession ==
    /\ attrs \in SessionAttrs
    /\ gattrs \in {LccAttrs, [PolarAttrs EXCEPT !.MAP_PROJ = 3]}
    /\ coords = AllOk
    /\ Idle

NextSession ==
    \/ Return
    \/ Keep
    \/ /\ Ready
       /\ \/ \E q \in SessionDerived, s \in SessionSubscripts : CallEvaluate(q, s)
          \/ \E varname \in {"PB", "PH"} :
                 \/ CallUnitsNice(varname)
                 \/ CallCheckUnits(varname, "Pa", TRUE)
          \/ CallCrs
          \/ CallLl2xy
          \/ \E dims \in {<<"Time", "south_north", "west_east">>,
                           <<"south_north", "west_east">>} :
                 CallInterpH(dims, Scalar, Scalar, SelInt(0), SelNone)

SpecSession == InitSession /\ [][NextSession]_vars

\* Values around a point, on datasets with each outcome of the
\* reconstruction of the projection.
InitAround ==
    /\ attrs = DefaultAttrs
    /\ gattrs \in GeoDatasets
    /\ coords = AllOk
    /\ Idle

NextAround ==
    \/ Return
    \/ /\ Ready
       /\ \E at \in AroundPoints, mode \in Modes, window \in (-1)..MaxWindow :
              CallValueAroundPoint(at, mode, window)

SpecAround == InitAround /\ [][NextAround]_vars

\* Evaluations of derived variables on a dataset whose owner changes the
\* attributes of the pressure variables and of PH between the calls.
EditedVars == {"P", "PB", "PH"}

ReevaluatedNames == {"atm_pressure", "air_temperature", "altitude_asl"}

InitEdit ==
    /\ attrs = DefaultAttrs
    /\ gattrs = LccAttrs
    /\ coords = AllOk
    /\ Idle

NextEdit ==
    \/ Return
    \/ Keep
    \/ /\ Ready
       /\ \/ \E q \in ReevaluatedNames : CallEvaluate(q, <<":">>)
          \/ \E v \in EditedVars :
                 \E a \in {DefaultAttrs[v], OtherAttrs(v, 1), OtherAttrs(v, 2)} :
                     EditAttrs(v, a)

SpecEdit == InitEdit /\ [][NextEdit]_vars

\* A run of compile_WPS.py, for each command line, option file and host.
InitCompile ==
    /\ attrs = DefaultAttrs
    /\ gattrs = LccAttrs
    /\ coords = AllOk
    /\ ures = NoUnitsCall
    /\ dres = NoEvaluation
    /\ gres = NoGeoCall
    /\ nrecon = 0
    /\ kept = <<>>
    /\ drv = [pc |-> "none"]
    /\ \E host \in {"spirit", "laptop"} :
       \E cli \in [repository : {Absent, "http://host/WPS.git"},
                   scheduler : {Absent, "No"},
                   dry : {Absent, "yes", "maybe"},
                   parallel : {Absent, "f"}] :
       \E d \in [repository : {Absent, "/local/WPS"},
                 scheduler : {Absent, PyFalse},
                 dry : {Absent, PyTrue, "no"},
                 parallel : {Absent, "no"},
                 bogus : {Absent, "x"}] :
       \E file \in {[kind |-> "none", d |-> <<>>], [kind |-> "list", d |-> <<>>],
                    [kind |-> "dict", d |-> d]} :
           job = [pc |-> "start", host |-> host, cli |-> cli, file |-> file,
                  opts |-> <<>>, exc |-> NoExc, done |-> <<>>]

NextCompile ==
    \/ IdentifyHost
    \/ GetOptions
    \/ \E i \in 1..Len(Preparation), ok \in BOOLEAN : Prepare(i, ok)
    \/ \E ok \in BOOLEAN : Launch(ok)

SpecCompile == InitCompile /\ [][NextCompile]_vars

\* A run of test-case-multi-wrf.py on one to MaxCommits commits, from the
\* start of the loop.
InitDriver ==
    /\ attrs = DefaultAttrs
    /\ gattrs = LccAttrs
    /\ coords = AllOk
    /\ ures = NoUnitsCall
    /\ dres = NoEvaluation
    /\ gres = NoGeoCall
    /\ nrecon = 0
    /\ kept = <<>>
    /\ job = [pc |-> "none"]
    /\ \E n \in 1..MaxCommits :
           drv = [pc |-> "loop", n |-> n, i |-> 1, step |-> 1,
                  job_ids |-> <<>>, last_job |-> [job |-> "", i |-> 0],
                  subs |-> <<>>, exc |-> NoExc]

NextDriver ==
    \/ \E stdout \in Stdouts(Len(drv.subs) + 1), ok \in BOOLEAN : Submit(stdout, ok)
    \/ \E ok \in BOOLEAN : Command(ok)
    \/ \E stdout \in Stdouts(Len(drv.subs) + 1), ok \in BOOLEAN : Analyze(stdout, ok)

SpecDriver == InitDriver /\ [][NextDriver]_vars

(***************************************************************************)
(* Properties.                                                             *)
(***************************************************************************)

\* The raw variables each derived variable takes as direct inputs.
DirectRaw(q) ==
    CASE q = "potential_temperature" -> {"T"}
      [] q = "atm_pressure" -> {"P", "PB"}
      [] q = "relative_humidity" -> {"QVAPOR"}
      [] q = "accumulated_precipitation" -> {"RAINNC", "RAINC"}
      [] q = "grid_cell_area" -> {"MAPFAC_M"}
      [] q = "altitude_asl" -> {"PH", "PHB"}
      [] q = "altitude_agl" -> {"HGT"}
      [] q = "cloud_liquid_water_path" -> {"QCLOUD"}
      [] OTHER -> {}

\* The raw variables that have a required unit, and that unit.
UnitCheckedVars ==
    {"T", "P", "PB", "QVAPOR", "QCLOUD", "RAINNC", "RAINC", "PH", "PHB", "HGT"}

RequiredUnit(v) ==
    CASE v = "T" -> "K"
      [] v \in {"P", "PB"} -> "Pa"
      [] v \in {"QVAPOR", "QCLOUD"} -> "kg kg-1"
      [] v \in {"RAINNC", "RAINC"} -> "mm"
      [] v \in {"PH", "PHB"} -> "m2 s-2"
      [] v = "HGT" -> "m"

\* Variable v has a recorded unit (under either key).
HasUnit(v) == attrs[v].units # Absent \/ attrs[v].unit # Absent

\* The recorded unit of v: the primary key, else the fallback key.
RecordedUnit(v) == IF attrs[v].units # Absent THEN attrs[v].units ELSE attrs[v].unit

\* The normalized form of a unit string, as the specification lists it.
Normalized(u) ==
    CASE u \in {"1", "-"} -> None
      [] u = "m2/s2" -> "m2 s-2"
      [] u = "kg/m2" -> "kg m-2"
      [] u \in {"kg/(s*m2)", "kg/(m2*s)", "kg/m2/s"} -> "kg m-2 s-1"
      [] u = "W m{-2}" -> "W m-2"
      [] OTHER -> u

Steps(log, kind) == {i \in 1..Len(log) : Head(log[i]) = kind}

\* C1: when a direct raw input of the evaluated derived variable has a
\* recorded unit whose normalized form is not the required one, the
\* evaluation fails, and no arithmetic on data arrays was done in it.
C1_UnitFailureBeforeArithmetic ==
    dres.q # "none" =>
        \A v \in DirectRaw(dres.q) \cap UnitCheckedVars :
            (HasUnit(v) /\ Normalized(RecordedUnit(v)) # RequiredUnit(v)) =>
                /\ dres.exc.kind # "none"
                /\ Steps(dres.log, "arith") = {}

\* C1 witness: atm_pressure on a dataset whose P is in Pa and whose PB is
\* in hPa has failed on the second check.
C1_Witness ==
    /\ dres.q = "atm_pressure"
    /\ HasUnit("P") /\ Normalized(RecordedUnit("P")) = "Pa"
    /\ attrs["PB"].units = "hPa"
    /\ dres.exc.kind = "ValueError"
    /\ Len(dres.log) = 2

\* C2: a derived variable returns a result only if every raw variable it
\* read directly was validated by check_units earlier in that evaluation.
C2_ResultOnlyAfterChecks ==
    (dres.q # "none" /\ dres.exc.kind = "none") =>
        \A i \in Steps(dres.log, "read") :
            dres.log[i][3] = dres.q =>
                \E j \in Steps(dres.log, "check") :
                    j < i /\ dres.log[j][2] = dres.log[i][2]

\* C3 as stated: check_units fails with a UnitMismatchError carrying the
\* expected and the actual normalized unit exactly when the normalized
\* recorded unit differs from the expected one, and returns otherwise.
C3_AsStated ==
    (ures.op = "check_units" /\ ures.nice /\ HasUnit(ures.varname)) =>
        LET actual == Normalized(RecordedUnit(ures.varname)) IN
        IF actual # ures.expected
        THEN /\ ures.exc.kind = "UnitMismatchError"
             /\ \E i, j \in 1..Len(ures.exc.msg) :
                    /\ i < j
                    /\ ures.exc.msg[i] = Fmt(ures.expected)
                    /\ ures.exc.msg[j] = Fmt(actual)
        ELSE ures.exc.kind = "none"

\* C3, amended: check_units (with nice left at its default) fails with a
\* ValueError whose message carries the expected and the actual normalized
\* unit exactly when the normalized recorded unit differs from the expected
\* one, and returns without error when they are equal.
C3_ValueErrorIffUnitsDiffer ==
    (ures.op = "check_units" /\ ures.nice /\ HasUnit(ures.varname)) =>
        LET actual == Normalized(RecordedUnit(ures.varname)) IN
        IF actual # ures.expected
        THEN /\ ures.exc.kind = "ValueError"
             /\ \E i, j \in 1..Len(ures.exc.msg) :
                    /\ i < j
                    /\ ures.exc.msg[i] = Fmt(ures.expected)
                    /\ ures.exc.msg[j] = Fmt(actual)
        ELSE ures.exc.kind = "none"

\* C3 witness: a check against "m2 s-2" has passed on a variable recorded
\* in "m2/s2".
C3_Witness ==
    /\ ures.op = "check_units" /\ ures.nice
    /\ attrs[ures.varname].units = "m2/s2"
    /\ ures.expected = "m2 s-2"
    /\ ures.exc.kind = "none"

\* C4 as stated: units returns the value of "units" when present, else the
\* value of "unit", and fails with a MissingAttributeError when the variable
\* has neither.
C4_AsStated ==
    ures.op = "units" =>
        LET a == attrs[ures.varname] IN
        /\ a.units # Absent => (ures.exc.kind = "none" /\ ures.val = a.units)
        /\ (a.units = Absent /\ a.unit # Absent) =>
               (ures.exc.kind = "none" /\ ures.val = a.unit)
        /\ (a.units = Absent /\ a.unit = Absent) =>
               ures.exc.kind = "MissingAttributeError"

\* C4, amended: units returns the value of "units" when present, else the
\* value of "unit", and fails with a KeyError (for the key "unit") when the
\* variable has neither.
C4_PrimaryThenFallbackElseKeyError ==
    ures.op = "units" =>
        LET a == attrs[ures.varname] IN
        /\ a.units # Absent => (ures.exc.kind = "none" /\ ures.val = a.units)
        /\ (a.units = Absent /\ a.unit # Absent) =>
               (ures.exc.kind = "none" /\ ures.val = a.unit)
        /\ (a.units = Absent /\ a.unit = Absent) =>
               (ures.exc.kind = "KeyError" /\ ures.exc.msg = <<"unit">>)

\* C4 witness: units has returned the primary value of a variable that has
\* both keys, with different values.
C4_Witness ==
    /\ ures.op = "units"
    /\ attrs[ures.varname].units = "hPa"
    /\ attrs[ures.varname].unit = "Pa"
    /\ ures.val = "hPa"

ValidPole == gattrs.POLE_LON = 0 /\ gattrs.POLE_LAT \in {Deg(90), Deg(-90)}

\* C6: the reconstruction fails with ValueError whenever POLE_LON is not
\* zero or POLE_LAT is neither 90 nor -90, whatever the projection code.
C6_PoleCheckedFirst ==
    (gres.op \in {"crs_pyproj", "crs"} /\ ~ValidPole) =>
        gres.exc.kind = "ValueError"

\* C6 witness: the reconstruction has failed with ValueError on a dataset
\* with a rotated pole and a documented but unsupported projection code.
C6_Witness ==
    /\ gres.op = "crs_pyproj"
    /\ gattrs.POLE_LON # 0
    /\ gattrs.MAP_PROJ \in DocumentedCodes \ {1, 2}
    /\ gres.exc.kind = "ValueError"

\* C7: with valid pole attributes, code 1 gives a Lambert conformal conic
\* descriptor and code 2 a polar stereographic one (or the ValueError of
\* their own checks), the other documented codes give NotImplementedError,
\* every other code gives ValueError, and only 1 and 2 give a descriptor.
C7_DispatchOnMapProj ==
    (gres.op = "crs_pyproj" /\ ValidPole) =>
        LET code == gattrs.MAP_PROJ IN
        /\ code = 1 => /\ gres.exc.kind \in {"none", "ValueError"}
                       /\ gres.exc.kind = "none" => gres.val.proj = "lcc"
                       /\ gattrs = LccAttrs => gres.exc.kind = "none"
        /\ code = 2 => /\ gres.exc.kind \in {"none", "ValueError"}
                       /\ gres.exc.kind = "none" => gres.val.proj = "stere"
                       /\ gattrs = PolarAttrs => gres.exc.kind = "none"
        /\ code \in {0, 3, 4, 5, 6, 102, 105, 203} =>
               gres.exc.kind = "NotImplementedError"
        /\ code \notin {0, 1, 2, 3, 4, 5, 6, 102, 105, 203} =>
               gres.exc.kind = "ValueError"
        /\ gres.exc.kind = "none" => code \in {1, 2}

\* C7 witness: the reconstruction has raised NotImplementedError for code
\* 203 on a dataset with valid pole attributes.
C7_Witness ==
    /\ gres.op = "crs_pyproj"
    /\ ValidPole
    /\ gattrs.MAP_PROJ = 203
    /\ gres.exc.kind = "NotImplementedError"

\* Two latitudes agree to four decimals.
SameLat4(a, b) == (a + 5) \div 10 = (b + 5) \div 10

\* A pair of redundant attributes disagrees: exactly for Lambert conformal
\* conic, to four decimals for the latitudes of polar stereographic.
InconsistentPair ==
    \/ /\ gattrs.MAP_PROJ = 1
       /\ \/ gattrs.MAP_PROJ_CHAR \notin {Absent, "Lambert Conformal Conic"}
          \/ gattrs.STAND_LON # gattrs.CEN_LON
          \/ gattrs.MOAD_CEN_LAT # gattrs.CEN_LAT
    \/ /\ gattrs.MAP_PROJ = 2
       /\ \/ gattrs.MAP_PROJ_CHAR \notin {Absent, "Polar Stereographic"}
          \/ gattrs.STAND_LON # gattrs.CEN_LON
          \/ ~SameLat4(gattrs.MOAD_CEN_LAT, gattrs.CEN_LAT)
          \/ ~SameLat4(gattrs.TRUELAT1, gattrs.CEN_LAT)
          \/ ~SameLat4(gattrs.TRUELAT2, gattrs.CEN_LAT)

\* C8: for both supported projections, when a pair of redundant attributes
\* disagrees the reconstruction fails with ValueError and gives no
\* descriptor.
C8_InconsistentMetadataRejected ==
    (gres.op \in {"crs_pyproj", "crs"} /\ InconsistentPair) =>
        (gres.exc.kind = "ValueError" /\ gres.val = None)

\* C8 witness: the reconstruction has failed on a Lambert conformal conic
\* dataset whose only flaw is that MOAD_CEN_LAT differs from CEN_LAT.
C8_Witness ==
    /\ gres.op = "crs_pyproj"
    /\ ValidPole
    /\ gattrs.MAP_PROJ = 1
    /\ gattrs.MAP_PROJ_CHAR = "Lambert Conformal Conic"
    /\ gattrs.STAND_LON = gattrs.CEN_LON
    /\ gattrs.MOAD_CEN_LAT # gattrs.CEN_LAT
    /\ gres.exc.kind = "ValueError"

\* C9 as stated: the projection is reconstructed at most once per dataset.
C9_AsStated == nrecon <= 1

\* C9, amended: nothing is kept from one geographic call to the next:
\* every call of crs, ll2xy or xy2ll runs the reconstruction once more, and
\* every call of interp_h that returns a result runs it twice more.
C9_ReconstructedAtEveryCall ==
    [][/\ gres'.op \in {"crs", "ll2xy", "xy2ll"} => nrecon' = nrecon + 1
       /\ (gres'.op = "interp_h" /\ gres'.exc.kind = "none") =>
              nrecon' = nrecon + 2]_<<gres.op, nrecon>>

\* C9 witness: interp_h has returned a result for the second time on one
\* dataset, after four reconstructions in all.
C9_Witness ==
    /\ gres.op = "interp_h"
    /\ gres.exc.kind = "none"
    /\ nrecon = 4

\* The projection metadata of the dataset is invalid.
InvalidProjection == crs_cartopy.exc.kind # "none"

\* Exception e is the one the reconstruction raises on this dataset.
IsReconstructionError(e) ==
    /\ e.kind = crs_cartopy.exc.kind
    /\ Head(e.msg) = Head(crs_cartopy.exc.msg)

\* C10 as stated: on a dataset whose projection metadata is invalid, every
\* call of ll2xy, xy2ll or interp_h fails with the error of the
\* reconstruction and neither transforms coordinates nor interpolates.
C10_AsStated ==
    (gres.op \in {"ll2xy", "xy2ll", "interp_h"} /\ InvalidProjection) =>
        /\ IsReconstructionError(gres.exc)
        /\ Steps(gres.log, "transform") = {}
        /\ Steps(gres.log, "interpolate") = {}

\* C10, amended: on a dataset whose projection metadata is invalid, every
\* call of ll2xy, xy2ll or interp_h fails and neither transforms
\* coordinates nor interpolates; ll2xy and xy2ll fail with the error of the
\* reconstruction, and so does interp_h unless one of the checks it makes
\* first (dimension labels, query shapes, selectors, indices, stored
\* longitude and latitude) has failed.
C10_NoTransformWithoutProjection ==
    (gres.op \in {"ll2xy", "xy2ll", "interp_h"} /\ InvalidProjection) =>
        /\ gres.exc.kind # "none"
        /\ Steps(gres.log, "transform") = {}
        /\ Steps(gres.log, "delaunay") = {}
        /\ Steps(gres.log, "interpolate") = {}
        /\ gres.op \in {"ll2xy", "xy2ll"} => IsReconstructionError(gres.exc)
        /\ gres.op = "interp_h" =>
               \/ IsReconstructionError(gres.exc)
               \/ /\ Steps(gres.log, "crs_pyproj") = {}
                  /\ Head(gres.log[Len(gres.log)]) \in
                         {"dimensionality", "query", "selectors", "isel",
                          "lonlat_var"}

\* C10 witness: interp_h, with arguments that pass its own checks, has
\* failed with NotImplementedError on a dataset of an unsupported projection.
C10_Witness ==
    /\ gres.op = "interp_h"
    /\ gattrs.MAP_PROJ = 3
    /\ gres.exc.kind = "NotImplementedError"
    /\ Steps(gres.log, "lonlat_var") # {}

\* The dimension labels of the fixed set, and the letter of each.
KnownLabels ==
    {"Time", "bottom_top", "bottom_top_stag", "south_north", "south_north_stag",
     "west_east", "west_east_stag"}

Letter(label) ==
    CASE label = "Time" -> "t"
      [] label \in {"bottom_top", "bottom_top_stag"} -> "z"
      [] label \in {"south_north", "south_north_stag"} -> "y"
      [] label \in {"west_east", "west_east_stag"} -> "x"

\* C11: dimensionality returns one letter per dimension of the variable, in
\* the order of its dimensions (t for Time, z for both vertical labels, y
\* for both north-south labels, x for both west-east labels), and fails
\* with ValueError when a label is outside this set.
C11_DimensionalityLetters ==
    gres.op = "dimensionality" =>
        LET dims == gres.args.dims IN
        IF \A i \in 1..Len(dims) : dims[i] \in KnownLabels
        THEN /\ gres.exc.kind = "none"
             /\ gres.val = [i \in 1..Len(dims) |-> Letter(dims[i])]
        ELSE /\ gres.exc.kind = "ValueError"
             /\ gres.val = None

\* C11 witness: a staggered four-dimensional variable was classified tzyx.
C11_Witness ==
    /\ gres.op = "dimensionality"
    /\ gres.args.dims = <<"Time", "bottom_top_stag", "south_north", "west_east">>
    /\ gres.exc.kind = "none"
    /\ gres.val = <<"t", "z", "y", "x">>

\* The stored pair that the claim names for horizontal dims h.
NamedPair(h) ==
    CASE h = <<"south_north", "west_east">> -> "XLONG"
      [] h = <<"south_north_stag", "west_east">> -> "XLONG_V"
      [] h = <<"south_north", "west_east_stag">> -> "XLONG_U"
      [] OTHER -> "none"

\* Stored longitude and latitude differ in dims or in shape.
Mismatched(p) ==
    \/ coords[p].lon.dims # coords[p].lat.dims
    \/ Len(coords[p].lon.slices) # Len(coords[p].lat.slices)

\* Some slice along the first axis of a differs from its first slice.
Varies(a) == \E i \in 1..Len(a.slices) : a.slices[i] # a.slices[1]

\* C12: lonlat_var selects the stored pair by the horizontal dims of the
\* variable alone (XLONG, XLONG_V or XLONG_U), fails with ValueError for
\* any other horizontal combination, when the stored longitude and
\* latitude differ in dims or shape, and when a time slice of either
\* differs from the first; it returns the pair when none of these holds
\* and the stored arrays lead with Time.
C12_LonLatPairByStaggering ==
    gres.op = "lonlat_var" =>
        LET h == SelectSeq(gres.args.dims, IsHorizontal)
            p == NamedPair(h)
        IN  /\ gres.exc.kind = "none" => gres.val = p /\ p # "none"
            /\ p = "none" => gres.exc.kind = "ValueError"
            /\ (p # "none" /\ Mismatched(p)) => gres.exc.kind = "ValueError"
            /\ (p # "none" /\ coords[p].lon.dims[1] = "Time"
                  /\ (Varies(coords[p].lon) \/ Varies(coords[p].lat))) =>
                   gres.exc.kind = "ValueError"
            /\ (p # "none" /\ ~Mismatched(p) /\ coords[p].lon.dims[1] = "Time"
                  /\ ~Varies(coords[p].lon) /\ ~Varies(coords[p].lat)) =>
                   gres.exc.kind = "none"

\* C12 witness: for a variable on the north-south staggered grid whose
\* stored latitude changes at the last time only, lonlat_var has failed.
C12_Witness ==
    /\ gres.op = "lonlat_var"
    /\ gres.args.dims = <<"Time", "bottom_top", "south_north_stag", "west_east">>
    /\ ~Varies(coords["XLONG_V"].lon)
    /\ coords["XLONG_V"].lat.slices = [i \in 1..NTimes |-> IF i = NTimes THEN 1 ELSE 0]
    /\ gres.exc.kind = "ValueError"

\* The arguments of the interp_h call whose result is in gres.
HasTime(dims) == \E i \in 1..Len(dims) : dims[i] = "Time"

HasLevels(dims) ==
    \E i \in 1..Len(dims) : dims[i] \in {"bottom_top", "bottom_top_stag"}

\* The number of levels of a variable with these dims.
LevelCount(dims) ==
    IF \E i \in 1..Len(dims) : dims[i] = "bottom_top_stag"
    THEN NLevels + 1 ELSE NLevels

\* The indices a selector asks for on an axis of n points.
Requested(sel, n) ==
    CASE sel.kind = "none" -> [i \in 1..n |-> i - 1]
      [] sel.kind = "int" -> <<sel.idx[1]>>
      [] sel.kind = "seq" -> sel.idx

\* The native time index of each interpolated field of the result, in the
\* order of the first axis, and the native level index along the second.
TimesOf(val) == val.xtime

LevelsOf(val) == [j \in 1..Len(val.values[1]) |-> val.values[1][j][2]]

\* C13: interp_h fails with ValueError when times is given for a variable
\* without a time axis or levels for a variable without a vertical axis;
\* in a result, an omitted selector stands for all indices of its axis and
\* a single integer for that one index.
C13_SelectorsMatchAxes ==
    gres.op = "interp_h" =>
        LET a == gres.args IN
        /\ (~HasTime(a.dims) /\ a.times.kind # "none") =>
               gres.exc.kind = "ValueError"
        /\ (~HasLevels(a.dims) /\ a.levels.kind # "none") =>
               gres.exc.kind = "ValueError"
        /\ (gres.exc.kind = "none" /\ a.times.kind \in {"none", "int"}) =>
               TimesOf(gres.val) = Requested(a.times, NTimes)
        /\ (gres.exc.kind = "none" /\ HasLevels(a.dims)
              /\ a.levels.kind \in {"none", "int"}) =>
               LevelsOf(gres.val) = Requested(a.levels, LevelCount(a.dims))

\* C13 witness: interp_h has returned a result for a staggered variable,
\* with times omitted and one integer for levels.
C13_Witness ==
    /\ gres.op = "interp_h"
    /\ gres.exc.kind = "none"
    /\ gres.args.dims = <<"Time", "bottom_top_stag", "south_north", "west_east">>
    /\ gres.args.times.kind = "none"
    /\ gres.args.levels.kind = "int"
    /\ Len(TimesOf(gres.val)) = NTimes

\* The dimensionality of the variable is one of the two supported ones.
Supported(dims) ==
    /\ \A i \in 1..Len(dims) : dims[i] \in KnownLabels
    /\ [i \in 1..Len(dims) |-> Letter(dims[i])] \in
           {<<"t", "y", "x">>, <<"t", "z", "y", "x">>}

\* C14 as stated: interp_h returns a result only for dimensionality tyx or
\* tzyx, and fails with ValueError for every other dimensionality.
C14_AsStated ==
    gres.op = "interp_h" =>
        /\ gres.exc.kind = "none" => Supported(gres.args.dims)
        /\ ~Supported(gres.args.dims) => gres.exc.kind = "ValueError"

\* An index of the selector is outside an axis that the variable has.
OutOfRange(sel, n) ==
    \E i \in 1..Len(sel.idx) : sel.idx[i] >= n \/ sel.idx[i] < -n

\* C14, amended: interp_h returns a result only for dimensionality tyx or
\* tzyx; for every other dimensionality it fails and returns nothing, with
\* ValueError unless a step before the dispatch has failed otherwise:
\* IndexError of a selector index outside its axis, or
\* NotImplementedError of an unsupported projection.
C14_OnlyTyxAndTzyx ==
    gres.op = "interp_h" =>
        LET a == gres.args IN
        /\ gres.exc.kind = "none" => Supported(a.dims)
        /\ ~Supported(a.dims) =>
              /\ gres.exc.kind \in {"ValueError", "IndexError", "NotImplementedError"}
              /\ gres.val = None
              /\ gres.exc.kind = "IndexError" =>
                     \/ HasTime(a.dims) /\ OutOfRange(a.times, NTimes)
                     \/ HasLevels(a.dims)
                            /\ OutOfRange(a.levels, LevelCount(a.dims))
              /\ gres.exc.kind = "NotImplementedError" =>
                     crs_pyproj.exc.kind = "NotImplementedError"

\* C14 witness: on a valid dataset, interp_h has reached the dispatch for a
\* variable of dimensionality zyx and failed there.
C14_Witness ==
    /\ gres.op = "interp_h"
    /\ gres.args.dims = <<"bottom_top", "south_north", "west_east">>
    /\ gres.exc.kind = "ValueError"
    /\ Head(gres.log[Len(gres.log)]) = "dispatch"
    /\ Steps(gres.log, "transform") # {}

\* The shape of the query after the meshgrid stage: two vectors of n
\* longitudes and m latitudes (a scalar is a vector of one) span m x n
\* points, two equal 2D shapes are kept.
QueryPoints(lon, lat) ==
    LET n == IF lon.shape = <<>> THEN <<1>> ELSE lon.shape
        m == IF lat.shape = <<>> THEN <<1>> ELSE lat.shape
    IN  IF Len(n) = 1 THEN <<m[1], n[1]>> ELSE n

\* C15: for a query given as scalars or arrays (the documented forms), the
\* array that interp_h returns has one entry per selected time (and per
\* selected level when the variable has a vertical axis), each of the
\* shape of the query; the entry at position (i, j) is the interpolation
\* of the native field at the i-th requested time index and the j-th
\* requested level index, in the order of the selectors.
C15_ResultShapeAndOrder ==
    (gres.op = "interp_h" /\ gres.exc.kind = "none"
       /\ gres.args.lon.kind # "list" /\ gres.args.lat.kind # "list") =>
        LET a == gres.args
            T == Requested(a.times, NTimes)
            Z == Requested(a.levels, LevelCount(a.dims))
            v == gres.val
        IN  /\ TimesOf(v) = T
            /\ Len(v.values) = Len(T)
            /\ IF HasLevels(a.dims)
               THEN /\ v.shape = <<Len(T), Len(Z)>> \o QueryPoints(a.lon, a.lat)
                    /\ \A i \in 1..Len(T) :
                          /\ Len(v.values[i]) = Len(Z)
                          /\ \A j \in 1..Len(Z) : v.values[i][j] = <<T[i], Z[j]>>
               ELSE /\ v.shape = <<Len(T)>> \o QueryPoints(a.lon, a.lat)
                    /\ \A i \in 1..Len(T) : v.values[i] = <<T[i]>>

\* C15 witness: interp_h has returned, for times [1, 0] and levels [1, 0]
\* of a four-dimensional variable and three longitudes by two latitudes,
\* an array of shape (2, 2, 2, 3).
C15_Witness ==
    /\ gres.op = "interp_h"
    /\ gres.exc.kind = "none"
    /\ gres.args.times = SelSeq(<<1, 0>>)
    /\ gres.args.levels = SelSeq(<<1, 0>>)
    /\ gres.args.lon = Array(<<3>>)
    /\ gres.val.shape = <<2, 2, 2, 3>>

\* The recorded unit of raw variable v is the required one.
GoodUnit(v) == HasUnit(v) /\ Normalized(RecordedUnit(v)) = RequiredUnit(v)

\* Raw variable v taken with subscript s: v[s].
Taken(v, s) == <<"var", v, AxesWhere(Dims(v), s, 1, FALSE)>>

\* C16: for a subscript s that fits the four dimensions of P and PB and
\* with both in Pa, atm_pressure[s] is the sum P[s] + PB[s] of the two raw
\* variables taken with that same s, and nothing more.
C16_AtmPressureIsSum ==
    (dres.q = "atm_pressure" /\ GoodUnit("P") /\ GoodUnit("PB")
       /\ Len(dres.s) <= 4) =>
        /\ dres.exc.kind = "none"
        /\ dres.val.expr = <<"+", Taken("P", dres.s), Taken("PB", dres.s)>>
        /\ dres.val.dims = AxesWhere(Dims("P"), dres.s, 1, TRUE)

\* C16 witness: atm_pressure[:, 0, :, :] has been evaluated.
C16_Witness ==
    /\ dres.q = "atm_pressure"
    /\ dres.s = <<":", "0", ":", ":">>
    /\ dres.exc.kind = "none"
    /\ dres.val.dims = <<"Time", "south_north", "west_east">>

\* The raw variables that an expression takes: its <<"var", v, picked>>.
RECURSIVE Leaves(_)
Leaves(e) ==
    IF Head(e) = "var" THEN {e}
    ELSE IF Head(e) \in {"const", "attr"} THEN {}
    ELSE UNION {Leaves(e[i]) : i \in 2..Len(e)}

\* Every raw variable with a required unit has it.
AllGoodUnits == \A v \in UnitCheckedVars : GoodUnit(v)

\* The dimensions of the full result q[:].
FullDims(q) == Evaluate(q, <<":">>).stack[1].dims

\* C17: with the units right, for every derived variable q and every
\* subscript s that fits the dimensions of q[:], q[s] succeeds and equals
\* q[:] indexed by s: it keeps the dimensions of q[:] that s slices, and
\* every raw input is taken at the index along exactly those of its
\* dimensions that s indexes in q[:].
C17_SliceLikeDirectIndexing ==
    (dres.q # "none" /\ AllGoodUnits /\ Len(dres.s) <= Len(FullDims(dres.q))) =>
        LET indexed == AxesWhere(FullDims(dres.q), dres.s, 1, FALSE) IN
        /\ dres.exc.kind = "none"
        /\ dres.val.dims = AxesWhere(FullDims(dres.q), dres.s, 1, TRUE)
        /\ \A leaf \in Leaves(dres.val.expr) :
               leaf[3] = SelectSeq(Dims(leaf[2]),
                             LAMBDA d : \E i \in 1..Len(indexed) : indexed[i] = d)

\* The raw variables whose units an evaluation has checked.
Checked(log) == {log[i][2] : i \in Steps(log, "check")}

\* C18 as stated: cloud_liquid_water_path fails instead of returning a
\* value when one of QCLOUD, T, P, PB, PH, PHB and HGT has not the
\* required unit.
C18_AsStated ==
    dres.q = "cloud_liquid_water_path" =>
        \A v \in {"QCLOUD", "T", "P", "PB", "PH", "PHB", "HGT"} :
            ~GoodUnit(v) => dres.exc.kind # "none"

\* C18, amended: cloud_liquid_water_path fails instead of returning a
\* value when one of QCLOUD, T, P, PB, PH and PHB has not the required
\* unit; a result comes after the unit checks of exactly these six, and
\* HGT is neither checked nor read, the box height being the difference of
\* the altitude above sea level.
C18_ChecksOfSixInputs ==
    dres.q = "cloud_liquid_water_path" =>
        /\ \A v \in {"QCLOUD", "T", "P", "PB", "PH", "PHB"} :
               ~GoodUnit(v) => dres.exc.kind # "none"
        /\ dres.exc.kind = "none" =>
               Checked(dres.log) = {"QCLOUD", "T", "P", "PB", "PH", "PHB"}
        /\ \A i \in 1..Len(dres.log) : dres.log[i][2] # "HGT"

\* C18 witness: cloud_liquid_water_path has failed on the unit of PHB,
\* after the checks of QCLOUD, P, PB, T and PH.
C18_Witness ==
    /\ dres.q = "cloud_liquid_water_path"
    /\ ~GoodUnit("PHB")
    /\ dres.exc.kind = "ValueError"
    /\ Checked(dres.log) = {"QCLOUD", "T", "P", "PB", "PH", "PHB"}

\* The call whose outcome is recorded has failed.
Failed(u, d, g) ==
    u.exc.kind # "none" \/ d.exc.kind # "none" \/ g.exc.kind # "none"

\* C19: no call of the accessor and no evaluation of a derived variable
\* changes the attributes of the variables, the attributes of the dataset
\* or the stored coordinates, whether it succeeds or fails; the arrays
\* returned earlier stay as they were, and a failing call leaves exactly
\* them in the hands of the caller.
C19_DatasetAndResultsUntouched ==
    [][/\ attrs' = attrs
       /\ gattrs' = gattrs
       /\ coords' = coords
       /\ Len(kept') >= Len(kept)
       /\ SubSeq(kept', 1, Len(kept)) = kept
       /\ Failed(ures', dres', gres') => kept' = kept
      ]_<<attrs, gattrs, coords, kept, ures.op, dres.q, gres.op>>

\* C19 witness: with two derived arrays in the hands of the caller, a
\* further evaluation has failed.
C19_Witness ==
    /\ Len(kept) = 2
    /\ dres.q = "atm_pressure"
    /\ dres.exc.kind = "ValueError"

\* C21: when interp_h is asked for a variable at the grid points of the
\* longitude/latitude pair of its own staggering, every entry of the result
\* holds the values of the native field at those points, for each selected
\* time and level; when the query point lies outside the convex hull of
\* the grid points, the interpolation does not raise and the result holds
\* NaN at that point.
C21_NativePointsAndOutsideHull ==
    gres.op = "interp_h" =>
        LET a == gres.args
            h == SubSeq(a.dims, Len(a.dims) - 1, Len(a.dims))
        IN  /\ (gres.exc.kind = "none" /\ a.lon.at = NamedPair(h)) =>
                   gres.val.points = "vertex"
            /\ (gres.exc.kind = "none" /\ a.lon.at = "outside") =>
                   gres.val.points = "nan"
            /\ (a.lon.at = "outside" /\ Steps(gres.log, "full") # {}) =>
                   gres.exc.kind = "none"

\* C21 witness: a variable on the grid staggered in x has been interpolated
\* at the points of XLONG_U / XLAT_U, at two times and two levels.
C21_Witness ==
    /\ gres.op = "interp_h"
    /\ gres.exc.kind = "none"
    /\ gres.args.dims = <<"Time", "bottom_top", "south_north", "west_east_stag">>
    /\ gres.args.lon = Native("XLONG_U")
    /\ gres.args.times = SelSeq(<<1, 0>>)
    /\ gres.args.levels = SelSeq(<<1, 0>>)
    /\ gres.val.points = "vertex"

\* The number of dimensions of a query argument, a scalar counting as a
\* vector of one element.
Rank(x) == IF x.kind = "scalar" THEN 1 ELSE Len(x.shape)

\* The length of a query vector, 1 for a scalar.
Length(x) == IF x.kind = "scalar" THEN 1 ELSE x.shape[1]

\* The last stage that a run of interp_h has entered.
LastStage(log) == Head(log[Len(log)])

C22_WindowPositiveOdd ==
    gres.op = "value_around_point" =>
        LET w == gres.args.window IN
        IF w <= 0 \/ w % 2 = 0
        THEN /\ gres.exc.kind = "ValueError"
             /\ LastStage(gres.log) = "window"
        ELSE /\ LastStage(gres.log) # "window"
             /\ (gres.args.at # <<>> /\ ~InvalidProjection) => gres.exc.kind = "none"

\* C22 witness: on a dataset with a valid projection, a window of 2 around
\* a cell inside the domain has been refused with ValueError.
C22_Witness ==
    /\ gres.op = "value_around_point"
    /\ gres.args.window = 2
    /\ gres.args.at = <<0, 1>>
    /\ ~InvalidProjection
    /\ gres.exc.kind = "ValueError"

\* C25: on a polar stereographic dataset with a valid pole, a matching
\* MAP_PROJ_CHAR (or none) and equal STAND_LON and CEN_LON, the
\* reconstruction succeeds exactly when TRUELAT1, TRUELAT2 and MOAD_CEN_LAT
\* each agree with CEN_LAT to four decimals, and fails with ValueError
\* otherwise; the descriptor is the stereographic one of POLE_LAT, of
\* TRUELAT1 as stored and of CEN_LON.
C25_PolarLatitudesToFourDecimals ==
    (/\ gres.op = "crs_pyproj"
     /\ ValidPole
     /\ gattrs.MAP_PROJ = 2
     /\ gattrs.MAP_PROJ_CHAR \in {Absent, "Polar Stereographic"}
     /\ gattrs.STAND_LON = gattrs.CEN_LON) =>
        IF /\ SameLat4(gattrs.TRUELAT1, gattrs.CEN_LAT)
           /\ SameLat4(gattrs.TRUELAT2, gattrs.CEN_LAT)
           /\ SameLat4(gattrs.MOAD_CEN_LAT, gattrs.CEN_LAT)
        THEN /\ gres.exc.kind = "none"
             /\ gres.val = [proj |-> "stere", lat_0 |-> gattrs.POLE_LAT,
                            lat_ts |-> gattrs.TRUELAT1, lon_0 |-> gattrs.CEN_LON]
        ELSE gres.exc.kind = "ValueError"

\* C25 witness: the reconstruction has succeeded with TRUELAT1 = 70.00004
\* and CEN_LAT = 70, and the descriptor holds 70.00004.
C25_Witness ==
    /\ gres.op = "crs_pyproj"
    /\ gattrs.MAP_PROJ = 2
    /\ gattrs.TRUELAT1 = 7000004
    /\ gattrs.CEN_LAT = 7000000
    /\ gres.exc.kind = "none"
    /\ gres.val.lat_ts = 7000004

\* The staggered altitude that each layer variable is computed from, and
\* what it computes of two adjacent levels k and k+1: "center" is their
\* arithmetic mean, "dz" the forward difference, level k+1 minus level k.
LayerBase(q) == IF q = "altitude_asl_c" THEN "altitude_asl" ELSE "altitude_agl"

LayerOp(q) == IF q = "box_dz" THEN "dz" ELSE "center"

\* Subscript s keeps every staggered level: it does not index the
\* vertical axis, the second of the four.
KeepsLevels(s) == Len(s) < 2 \/ s[2] = ":"

\* C27: with the units right and a subscript that keeps the staggered
\* levels, altitude_asl_c, altitude_agl_c and box_dz return a value whose
\* vertical axis is bottom_top, one level shorter than bottom_top_stag, and
\* whose level k is the mean (for box_dz the forward difference) of levels
\* k and k+1 of altitude_asl (altitude_agl) taken with the same subscript.
C27_LayersFromAdjacentLevels ==
    (dres.q \in {"altitude_asl_c", "altitude_agl_c", "box_dz"}
       /\ AllGoodUnits /\ KeepsLevels(dres.s)) =>
        /\ dres.exc.kind = "none"
        /\ \E i \in 1..Len(dres.val.dims) : dres.val.dims[i] = "bottom_top"
        /\ \A i \in 1..Len(dres.val.dims) : dres.val.dims[i] # "bottom_top_stag"
        /\ dres.val.expr =
               <<LayerOp(dres.q), Evaluate(LayerBase(dres.q), dres.s).stack[1].expr>>

\* The raw variables whose units the evaluation of q depends on, through
\* every derived variable it uses.
TransitiveRaw(q) ==
    CASE q = "atm_pressure" -> {"P", "PB"}
      [] q = "air_temperature" -> {"T", "P", "PB"}
      [] q = "altitude_asl" -> {"PH", "PHB"}

\* C28: whatever was evaluated, kept or changed before, an evaluation of a
\* derived variable succeeds exactly when every raw input it depends on
\* has the required unit in the dataset as it is at that moment; an
\* evaluation that succeeds has checked the unit of each of them and read
\* each of them from the dataset.
C28_NoCacheAcrossEvaluations ==
    dres.q # "none" =>
        /\ dres.exc.kind = "none" <=> \A v \in TransitiveRaw(dres.q) : GoodUnit(v)
        /\ dres.exc.kind = "none" =>
               /\ Checked(dres.log) = TransitiveRaw(dres.q)
               /\ {dres.log[i][2] : i \in Steps(dres.log, "read")} =
                      TransitiveRaw(dres.q)

\* C28 witness: the caller holds atm_pressure[:] from an earlier
\* evaluation, the unit of P is no longer Pa, and a new evaluation of
\* atm_pressure[:] has failed with ValueError.
C28_Witness ==
    /\ Len(kept) >= 1
    /\ kept[1].q = "atm_pressure"
    /\ ~GoodUnit("P")
    /\ dres.q = "atm_pressure"
    /\ dres.exc.kind = "ValueError"

\* The commands that launch the compilation.
Launches == {"sbatch compile.job", "./compile.job"}

\* Dry is asked on the command line; dry is asked nowhere.
DryRun == job.cli.dry \in {"true", "t", "yes", "y"}

NoDryOption ==
    job.cli.dry = Absent /\ (job.file.kind = "dict" => job.file.d.dry = Absent)

GivenOnCommandLine(o) ==
    IF o \notin BoolOptions THEN job.cli[o]
    ELSE IF job.cli[o] \in {"true", "t", "yes", "y", "YES"} THEN PyTrue
    ELSE PyFalse

\* The option file names a value for option o.
InFile(o) == job.file.kind = "dict" /\ job.file.d[o] # Absent

\* C24: when get_options has returned, every option holds the value of
\* the command line if it is given there, else the value of the option
\* file if it is given there, else the default; with an option file that
\* is not a dictionary, or that names an unknown option, get_options
\* fails with ValueError.
C24_CommandLineThenFileThenDefault ==
    /\ job.pc \in {"launch", "exit"} \cup {Preparation[i] : i \in 1..Len(Preparation)} =>
           \A o \in OptionNames :
               job.opts[o] = IF job.cli[o] # Absent THEN GivenOnCommandLine(o)
                             ELSE IF InFile(o) THEN job.file.d[o]
                             ELSE Defaults[o]
    /\ (job.pc \notin {"none", "start", "get_options"} /\ job.host = "spirit"
          /\ (job.file.kind = "list" \/ InFile("bogus"))) =>
           (job.pc = "failed" /\ job.exc.kind = "ValueError" /\ job.done = <<>>)

\* C24 witness: get_options has returned with dry from the command line,
\* scheduler from the option file and parallel from the defaults, where
\* the option file names dry too.
C24_Witness ==
    /\ job.pc = "clone_and_checkout"
    /\ job.cli.dry = "yes"
    /\ job.file.kind = "dict"
    /\ job.file.d.dry = "no"
    /\ job.cli.scheduler = Absent
    /\ job.file.d.scheduler = PyFalse
    /\ job.opts.dry = PyTrue
    /\ job.opts.scheduler = PyFalse
    /\ job.opts.parallel = PyTrue

\* C29: once get_options has returned, scheduler, dry and parallel each
\* hold True or False.
C29_BooleanOptionsAreBoolean ==
    job.pc \in {"launch", "exit"} \cup {Preparation[i] : i \in 1..Len(Preparation)} =>
        \A o \in BoolOptions : job.opts[o] \in {PyTrue, PyFalse}

\* The names of the jobs of one commit, in the order of their submission.
JobsOfCommit == <<"Install WRF", "Install WPS", "Run WPS", "Run real", "Run WRF-Chem">>

\* The output holds exactly one line 'Submitted batch job <digits>'.
OneSubmittedLine(out) ==
    Cardinality({j \in 1..Len(out) : out[j].text = "Submitted batch job"}) = 1

\* C30: the jobs reach the scheduler commit after commit, each commit's in
\* the order Install WRF, Install WPS, Run WPS, Run real, Run WRF-Chem, the
\* first without dependency and each other one with afterok on the job
\* before it; the analysis job comes last, after the jobs of every commit,
\* with afterok on every job submitted before; and a submission whose
\* output does not hold exactly one 'Submitted batch job' line ends the
\* script with RuntimeError, so that it is the last submission.
C30_JobsChainedPerCommit ==
    /\ drv.pc \in {"loop", "analysis", "done", "failed"}
    /\ \A k \in 1..Len(drv.subs) :
           LET s == drv.subs[k] IN
           /\ IF k <= Len(JobsOfCommit) * drv.n
              THEN /\ s.name.job = JobsOfCommit[((k - 1) % Len(JobsOfCommit)) + 1]
                   /\ s.name.i = ((k - 1) \div Len(JobsOfCommit)) + 1
                   /\ IF (k - 1) % Len(JobsOfCommit) = 0 THEN s.deps = <<>>
                      ELSE s.deps = <<drv.subs[k - 1].id>>
              ELSE /\ k = Len(JobsOfCommit) * drv.n + 1
                   /\ s.name.job = "Analyze results"
                   /\ s.deps = [j \in 1..(k - 1) |-> drv.subs[j].id]
           /\ ~OneSubmittedLine(s.out) =>
                  /\ k = Len(drv.subs)
                  /\ drv.pc = "failed"
                  /\ drv.exc.kind = "RuntimeError"
    /\ drv.pc = "done" => Len(drv.subs) = Len(JobsOfCommit) * drv.n + 1

\* Two commits went through: eleven jobs, the last one the analysis, one
\* of them submitted by a command that printed other lines too.
C30_Witness ==
    /\ drv.pc = "done"
    /\ drv.n = 2
    /\ Len(drv.subs) = 11
    /\ drv.subs[11].name.job = "Analyze results"
    /\ Len(drv.subs[11].deps) = 10
    /\ \E k \in 1..11 : Len(drv.subs[k].out) = 2

====
